---- MODULE Spec2Model ----
(***************************************************************************)
(* Verification model of the gpucachesim cache hierarchy: the base cache   *)
(* (miss queue, MSHR table, pending fills, bandwidth manager), the data    *)
(* cache policy handlers and the read-only cache.                          *)
(***************************************************************************)
EXTENDS Integers, Sequences, FiniteSets, Bags, TLC

\* ------------------------------------------------------------------------
\* Bounds of the model
\* ------------------------------------------------------------------------
\* number of fetches (unique ids) that may be constructed in one behaviour
MaxFetches == 3
\* last simulated cycle
MaxTime == 2
\* number of distinct cache lines in the modelled address space
NumBlocks == 2
\* largest miss_queue_size a configuration may choose
MaxMissQueueSize == 3
\* largest port occupancy at which the bandwidth manager is still charged
MaxOccupied == 3

\* ------------------------------------------------------------------------
\* Cache geometry (fields of config::CacheConfig)
\* ------------------------------------------------------------------------
LineSize == 2
AtomSize == 2
NumSets == 1
Assoc == 1
MshrEntries == 1
MshrMaxMerge == 2
DataPortWidth == 2
NumChips == 2

Addrs == 0..(NumBlocks * LineSize - 1)
Uids == 1..(MaxFetches + 3)
NoIndex == 0 - 1

block_addr(addr) == addr - (addr % LineSize)
mshr_addr(addr) == addr - (addr % AtomSize)
set_index(baddr) == (baddr \div LineSize) % NumSets

\* ------------------------------------------------------------------------
\* Memory controller
\* ------------------------------------------------------------------------
to_physical_address(addr) ==
    [chip |-> (addr \div LineSize) % NumChips,
     sub_partition |-> (addr \div LineSize) % NumChips,
     brc |-> addr \div LineSize]

\* ------------------------------------------------------------------------
\* Fetches
\* ------------------------------------------------------------------------
ReadKinds == {"GLOBAL_ACC_R", "INST_ACC_R", "L1_WR_ALLOC_R"}
WriteKinds == {"GLOBAL_ACC_W", "L1_WRBK_ACC"}

is_write(f) == f.kind \in WriteKinds

MemFetchBuild(uid, kind, addr, size, atomic, phys) ==
    [uid |-> uid, kind |-> kind, addr |-> addr, data_size |-> size,
     is_atomic |-> atomic, physical_addr |-> phys]

\* ------------------------------------------------------------------------
\* Tag array
\* ------------------------------------------------------------------------
LineIndices == 0..(NumSets * Assoc - 1)
Ways(set) == {set * Assoc + w : w \in 0..(Assoc - 1)}

InvalidBlock == [status |-> "INVALID", block_addr |-> 0, last_access_time |-> 0]

is_modified(b) == b.status = "MODIFIED"

MinIndex(S) == CHOOSE i \in S : \A j \in S : i <= j

\* index of the way to replace: an invalid way, else the least recently used
Victim(lines, cand) ==
    LET inv == {i \in cand : lines[i].status = "INVALID"}
        lru == {i \in cand : \A j \in cand :
                   lines[i].last_access_time <= lines[j].last_access_time}
    IN IF inv # {} THEN MinIndex(inv) ELSE MinIndex(lru)

TagProbe(lines, baddr) ==
    LET ways  == Ways(set_index(baddr))
        match == {i \in ways : lines[i].status # "INVALID"
                                 /\ lines[i].block_addr = baddr}
        cand  == {i \in ways : lines[i].status # "RESERVED"}
    IN IF match # {}
       THEN LET i == MinIndex(match)
            IN [index |-> i,
                status |-> IF lines[i].status = "RESERVED"
                           THEN "HIT_RESERVED" ELSE "HIT"]
       ELSE IF cand = {}
            THEN [index |-> NoIndex, status |-> "RESERVATION_FAIL"]
            ELSE [index |-> Victim(lines, cand), status |-> "MISS"]

EvictedBlockInfo(b) ==
    [block_addr |-> b.block_addr, modified_size |-> LineSize]

NoEvicted == [block_addr |-> NoIndex, modified_size |-> 0]

\* tag_array.access: returns the new tag array and the AccessStatus
TagAccessProbed(ta, cfg, baddr, time, p) ==
    CASE p.status \in {"HIT", "HIT_RESERVED"} ->
           [ta |-> [ta EXCEPT !.lines[p.index].last_access_time = time],
            cache_index |-> p.index, status |-> p.status,
            writeback |-> FALSE, evicted |-> NoEvicted]
      [] p.status = "MISS" /\ cfg.allocate_policy = "ON_MISS" ->
           [ta |-> [lines |-> [ta.lines EXCEPT ![p.index] =
                                 [status |-> "RESERVED", block_addr |-> baddr,
                                  last_access_time |-> time]],
                    num_dirty |-> IF is_modified(ta.lines[p.index])
                                  THEN ta.num_dirty - 1 ELSE ta.num_dirty],
            cache_index |-> p.index, status |-> "MISS",
            writeback |-> is_modified(ta.lines[p.index]),
            evicted |-> IF is_modified(ta.lines[p.index])
                        THEN EvictedBlockInfo(ta.lines[p.index]) ELSE NoEvicted]
      [] OTHER ->
           [ta |-> ta, cache_index |-> p.index, status |-> p.status,
            writeback |-> FALSE, evicted |-> NoEvicted]

TagAccess(ta, cfg, baddr, time) ==
    TagAccessProbed(ta, cfg, baddr, time, TagProbe(ta.lines, baddr))

\* tag_array.fill_on_miss: the reserved line becomes VALID
TagFillOnMiss(ta, index) ==
    [ta EXCEPT !.lines[index].status = "VALID"]

\* tag_array.fill_on_fill: allocate now (second probe), then fill
TagFillOnFillProbed(ta, baddr, time, p) ==
    IF p.status = "RESERVATION_FAIL" THEN ta
    ELSE IF p.status = "MISS"
         THEN [lines |-> [ta.lines EXCEPT ![p.index] =
                            [status |-> "VALID", block_addr |-> baddr,
                             last_access_time |-> time]],
               num_dirty |-> IF is_modified(ta.lines[p.index])
                             THEN ta.num_dirty - 1 ELSE ta.num_dirty]
         ELSE [ta EXCEPT !.lines[p.index].status =
                            IF @ = "RESERVED" THEN "VALID" ELSE @]

TagFillOnFill(ta, baddr, time) ==
    TagFillOnFillProbed(ta, baddr, time, TagProbe(ta.lines, baddr))

\* ------------------------------------------------------------------------
\* MSHR table
\* ------------------------------------------------------------------------
MshrProbe(m, a) == a \in DOMAIN m.entries
MshrFull(m, a) ==
    IF a \in DOMAIN m.entries
    THEN Len(m.entries[a].list) >= MshrMaxMerge
    ELSE Cardinality(DOMAIN m.entries) >= MshrEntries

MshrAdd(m, a, f) ==
    IF a \in DOMAIN m.entries
    THEN [m EXCEPT !.entries[a].list = Append(@, f),
                   !.entries[a].has_atomic = @ \/ f.is_atomic]
    ELSE [m EXCEPT !.entries =
            [x \in DOMAIN m.entries \cup {a} |->
               IF x = a THEN [list |-> <<f>>, has_atomic |-> f.is_atomic]
               ELSE m.entries[x]]]

MshrMarkReady(m, a) == [m EXCEPT !.ready = Append(@, a)]
MshrHasAtomic(m, a) == IF a \in DOMAIN m.entries THEN m.entries[a].has_atomic ELSE FALSE

MshrHasReady(m) == m.ready # <<>>
MshrNextAccess(m) ==
    LET a == Head(m.ready)
        rest == Tail(m.entries[a].list)
    IN IF rest = <<>>
       THEN [entries |-> [x \in DOMAIN m.entries \ {a} |-> m.entries[x]],
             ready |-> Tail(m.ready)]
       ELSE [m EXCEPT !.entries[a].list = rest]

\* ------------------------------------------------------------------------
\* State
\* ------------------------------------------------------------------------
VARIABLES
    cfg,        \* the cache configuration (config::CacheConfig)
    c,          \* the cache: tag array, MSHR table, miss queue, pending, stats, ports
    replies,    \* read requests pushed to the lower-level port, not yet answered
    time,       \* the simulated cycle
    next_uid,   \* the unique id the next constructed fetch gets
    panicked,   \* a handler hit panic!/unwrap/unimplemented!
    ret,        \* what the last handler returned and observed
    issued,     \* history: uid -> address and size of each read request sent
    queued,     \* history: uids in the order they entered the miss queue
    sent,       \* history: uids in the order they were pushed to the port
    block,      \* one sector cache block (cache::block), for the write-hit path
    core,       \* one SIMT core (core::Core) and the kernel bound to it
    cluster     \* a cluster: response FIFO, interconnect packets, core response buffers

vars == <<cfg, c, replies, time, next_uid, panicked, ret, issued, queued, sent, block, core, cluster>>

Inc(stats, kind, stat) == stats (+) SetToBag({<<kind, stat>>})

\* ------------------------------------------------------------------------
\* Base cache
\* ------------------------------------------------------------------------
\* variant: the comparison admits a queue that becomes exactly full
miss_queue_can_fit_Inclusive(cc, cf, n) ==
    Len(cc.miss_queue) + n <= cf.miss_queue_size

miss_queue_can_fit(cc, cf, n) == Len(cc.miss_queue) + n < cf.miss_queue_size

miss_queue_full(cc, cf) == Len(cc.miss_queue) >= cf.miss_queue_size

waiting_for_fill(cc, uid) == uid \in DOMAIN cc.pending

PendingRequest(fetch, ma, cache_index) ==
    [valid |-> TRUE, block_addr |-> ma, addr |-> fetch.addr,
     cache_index |-> cache_index, data_size |-> fetch.data_size,
     pending_reads |-> 0]

\* variant: the request keeps the address of the access
AtomRequest_KeepsAddr(fetch, ma) == [fetch EXCEPT !.data_size = AtomSize]

\* the request put in the miss queue: atom sized, at the mshr block address
AtomRequest(fetch, ma) == [fetch EXCEPT !.data_size = AtomSize, !.addr = ma]

\* the second component of send_read_request's result
SendReadRequestWriteback(writeback, write_allocate) == write_allocate

\* variant: the new-entry test forgets to ask for an MSHR miss
SendReadBranch_NoHitTest(mshr_hit, mshr_full, mq_full) ==
    IF ~mshr_full /\ ~mq_full THEN "NEW_ENTRY"
    ELSE IF mshr_hit /\ ~mshr_full THEN "MERGE"
    ELSE IF mshr_hit /\ mshr_full THEN "MSHR_MERGE_ENTRY_FAIL"
    ELSE "MSHR_ENTRY_FAIL"

\* the branch send_read_request takes
SendReadBranch(mshr_hit, mshr_full, mq_full) ==
    IF mshr_hit /\ ~mshr_full THEN "MERGE"
    ELSE IF ~mshr_hit /\ ~mshr_full /\ ~mq_full THEN "NEW_ENTRY"
    ELSE IF mshr_hit /\ mshr_full THEN "MSHR_MERGE_ENTRY_FAIL"
    ELSE IF ~mshr_hit /\ mshr_full THEN "MSHR_ENTRY_FAIL"
    ELSE "PANIC"

Event(kind, evicted) == [kind |-> kind, evicted_block |-> evicted]

SendReadRequestBranch(cc, ma, cache_index, fetch, events, read_only, write_allocate, acc, branch) ==
    CASE branch = "MERGE" ->
           [c |-> [cc EXCEPT !.ta = acc.ta,
                             !.mshrs = MshrAdd(@, ma, fetch),
                             !.stats = Inc(@, fetch.kind, "MSHR_HIT")],
            should_miss |-> TRUE,
            writeback |-> SendReadRequestWriteback(~read_only /\ acc.writeback,
                                                   write_allocate),
            evicted |-> IF read_only THEN NoEvicted ELSE acc.evicted,
            events |-> events, panic |-> FALSE]
      [] branch = "NEW_ENTRY" ->
           [c |-> [cc EXCEPT
                     !.ta = acc.ta,
                     !.pending = [u \in DOMAIN cc.pending \cup {fetch.uid} |->
                                    IF u = fetch.uid
                                    THEN PendingRequest(fetch, ma, cache_index)
                                    ELSE cc.pending[u]],
                     !.mshrs = MshrAdd(@, ma, AtomRequest(fetch, ma)),
                     !.miss_queue = Append(@, AtomRequest(fetch, ma))],
            should_miss |-> TRUE,
            writeback |-> SendReadRequestWriteback(~read_only /\ acc.writeback,
                                                   write_allocate),
            evicted |-> IF read_only THEN NoEvicted ELSE acc.evicted,
            events |-> IF write_allocate THEN events
                       ELSE Append(events, Event("READ_REQUEST_SENT", NoEvicted)),
            panic |-> FALSE]
      [] branch = "MSHR_MERGE_ENTRY_FAIL" ->
           [c |-> [cc EXCEPT !.stats = Inc(@, fetch.kind, "MSHR_MERGE_ENTRY_FAIL")],
            should_miss |-> FALSE,
            writeback |-> SendReadRequestWriteback(FALSE, write_allocate),
            evicted |-> NoEvicted, events |-> events, panic |-> FALSE]
      [] branch = "MSHR_ENTRY_FAIL" ->
           [c |-> [cc EXCEPT !.stats = Inc(@, fetch.kind, "MSHR_ENTRY_FAIL")],
            should_miss |-> FALSE,
            writeback |-> SendReadRequestWriteback(FALSE, write_allocate),
            evicted |-> NoEvicted, events |-> events, panic |-> FALSE]
      [] OTHER ->
           [c |-> cc, should_miss |-> FALSE, writeback |-> FALSE,
            evicted |-> NoEvicted, events |-> events, panic |-> TRUE]

send_read_request(cc, cf, addr, baddr, cache_index, fetch, t, events, read_only, write_allocate) ==
    SendReadRequestBranch(cc, mshr_addr(fetch.addr), cache_index, fetch, events,
                          read_only, write_allocate,
                          TagAccess(cc.ta, cf, baddr, t),
                          SendReadBranch(MshrProbe(cc.mshrs, mshr_addr(fetch.addr)),
                                         MshrFull(cc.mshrs, mshr_addr(fetch.addr)),
                                         miss_queue_full(cc, cf)))

\* ------------------------------------------------------------------------
\* Bandwidth manager
\* ------------------------------------------------------------------------
CeilDiv(a, b) == (a \div b) + (IF a % b > 0 THEN 1 ELSE 0)

WritebackEvents(events) ==
    {i \in 1..Len(events) : events[i].kind = "WRITE_BACK_REQUEST_SENT"}

\* returns the new data port occupancy, or NoIndex when unwrap() panics
use_data_port(occupied, data_size, access_status, events) ==
    CASE access_status = "HIT" -> occupied + CeilDiv(data_size, DataPortWidth)
      [] access_status \in {"HIT_RESERVED", "MISS"} ->
           IF WritebackEvents(events) = {} THEN occupied
           ELSE LET e == events[MinIndex(WritebackEvents(events))]
                IN IF e.evicted_block = NoEvicted THEN NoIndex
                   ELSE occupied + (e.evicted_block.modified_size \div DataPortWidth)
      [] OTHER -> occupied

use_fill_port(occupied) == occupied + (AtomSize \div DataPortWidth)

replenish_port_bandwidth(cc) ==
    [cc EXCEPT !.data_port_occupied_cycles = IF @ > 0 THEN @ - 1 ELSE @,
               !.fill_port_occupied_cycles = IF @ > 0 THEN @ - 1 ELSE @]

has_free_data_port(cc) == cc.data_port_occupied_cycles = 0
has_free_fill_port(cc) == cc.fill_port_occupied_cycles = 0

\* impl CacheBandwidth for ReadOnly, and for the L2 data cache
ReadOnlyHasFreeDataPort(cc) == has_free_data_port(cc)
ReadOnlyHasFreeFillPort(cc) == has_free_data_port(cc)
L2HasFreeDataPort(cc) == has_free_data_port(cc)
L2HasFreeFillPort(cc) == has_free_data_port(cc)

\* ------------------------------------------------------------------------
\* Data cache
\* ------------------------------------------------------------------------
Result(cc, status, events, built, panic) ==
    [c |-> cc, status |-> status, events |-> events, built |-> built, panic |-> panic]

\* Data::send_write_request
send_write_request(cc, fetch) == [cc EXCEPT !.miss_queue = Append(@, fetch)]

SetModified(ta, index) ==
    LET was_modified_before == is_modified(ta.lines[index])
    IN [lines |-> [ta.lines EXCEPT ![index].status = "MODIFIED"],
        num_dirty |-> IF ~was_modified_before THEN ta.num_dirty + 1 ELSE ta.num_dirty]

SetModifiedAccessed(acc) == SetModified(acc.ta, acc.cache_index)

write_hit_write_back(cc, cf, addr, fetch, t, events) ==
    Result([cc EXCEPT !.ta = SetModifiedAccessed(
                                TagAccess(cc.ta, cf, block_addr(addr), t))],
           "HIT", events, 0, FALSE)

ReadHitTags(acc, is_atomic) ==
    IF is_atomic THEN SetModified(acc.ta, acc.cache_index) ELSE acc.ta

read_hit(cc, cf, addr, fetch, t, events) ==
    Result([cc EXCEPT !.ta = ReadHitTags(TagAccess(cc.ta, cf, block_addr(addr), t),
                                         fetch.is_atomic)],
           "HIT", events, 0, FALSE)

\* the writeback fetch of Data::read_miss
ReadMissWriteback(uid, fetch, evicted) ==
    LET physical_addr == to_physical_address(evicted.block_addr)
    IN MemFetchBuild(uid, "L1_WRBK_ACC", evicted.block_addr, evicted.modified_size,
                     FALSE,
                     [physical_addr EXCEPT
                        !.chip = fetch.physical_addr.chip,
                        !.sub_partition = fetch.physical_addr.sub_partition])

\* Data::read_miss after send_read_request returned r
ReadMissSent(r, cf, fetch, uid) ==
    IF r.panic THEN Result(r.c, "RESERVATION_FAIL", r.events, 0, TRUE)
    ELSE IF r.should_miss
    THEN IF r.writeback /\ cf.write_policy # "WRITE_THROUGH"
            /\ r.evicted # NoEvicted
         THEN Result(send_write_request(r.c,
                        ReadMissWriteback(uid, fetch, r.evicted)),
                     "MISS",
                     Append(r.events, Event("WRITE_BACK_REQUEST_SENT", NoEvicted)),
                     1, FALSE)
         ELSE Result(r.c, "MISS", r.events, 0, FALSE)
    ELSE Result(r.c, "RESERVATION_FAIL", r.events, 0, FALSE)

read_miss(cc, cf, addr, cache_index, fetch, t, events, uid) ==
    IF ~miss_queue_can_fit(cc, cf, 1)
    THEN Result([cc EXCEPT !.stats = Inc(@, fetch.kind, "MISS_QUEUE_FULL")],
                "RESERVATION_FAIL", events, 0, FALSE)
    ELSE ReadMissSent(send_read_request(cc, cf, addr, block_addr(addr), cache_index,
                                        fetch, t, events, FALSE, FALSE),
                      cf, fetch, uid)

\* variant: the write is sent without testing the miss queue
write_miss_no_write_allocate_Unchecked(cc, cf, addr, fetch, t, events) ==
    Result(send_write_request(cc, fetch), "MISS",
           Append(events, Event("WRITE_REQUEST_SENT", NoEvicted)), 0, FALSE)

write_miss_no_write_allocate(cc, cf, addr, fetch, t, events) ==
    IF miss_queue_full(cc, cf)
    THEN Result([cc EXCEPT !.stats = Inc(@, fetch.kind, "MISS_QUEUE_FULL")],
                "RESERVATION_FAIL", events, 0, FALSE)
    ELSE Result(send_write_request(cc, fetch), "MISS",
                Append(events, Event("WRITE_REQUEST_SENT", NoEvicted)), 0, FALSE)

\* the four conditions computed at the head of write_miss_write_allocate_naive
WaMshrHit(cc, fetch) == MshrProbe(cc.mshrs, mshr_addr(fetch.addr))
WaMshrFree(cc, fetch) == ~MshrFull(cc.mshrs, mshr_addr(fetch.addr))
WaMshrFull(cc, cf) == ~miss_queue_can_fit(cc, cf, 2)
WaMshrMissButFree(cc, cf, fetch) ==
    ~WaMshrHit(cc, fetch) /\ WaMshrFree(cc, fetch) /\ ~miss_queue_full(cc, cf)

WaMustFail(cc, cf, fetch) ==
    WaMshrFull(cc, cf)
    \/ ~(WaMshrMissButFree(cc, cf, fetch)
         \/ (WaMshrHit(cc, fetch) /\ WaMshrFree(cc, fetch)))

\* variant: the MSHR reasons are tested before the miss queue
WaFailure_MshrFirst(cc, cf, fetch) ==
    IF WaMshrHit(cc, fetch) /\ ~WaMshrFree(cc, fetch) THEN "MSHR_MERGE_ENTRY_FAIL"
    ELSE IF ~WaMshrHit(cc, fetch) /\ ~WaMshrFree(cc, fetch) THEN "MSHR_ENTRY_FAIL"
    ELSE IF WaMshrFull(cc, cf) THEN "MISS_QUEUE_FULL"
    ELSE "PANIC"

\* the failure reason, "PANIC" for the 'bad reason' branch
WaFailure(cc, cf, fetch) ==
    IF WaMshrFull(cc, cf) THEN "MISS_QUEUE_FULL"
    ELSE IF WaMshrHit(cc, fetch) /\ ~WaMshrFree(cc, fetch) THEN "MSHR_MERGE_ENTRY_FAIL"
    ELSE IF ~WaMshrHit(cc, fetch) /\ ~WaMshrFree(cc, fetch) THEN "MSHR_ENTRY_FAIL"
    ELSE "PANIC"

\* the read-for-allocate fetch of write_miss_write_allocate_naive
WriteAllocateRead(uid, fetch) ==
    MemFetchBuild(uid, "L1_WR_ALLOC_R", fetch.addr, AtomSize, FALSE,
                  to_physical_address(fetch.addr))

\* the writeback fetch of write_miss_write_allocate_naive: built with the
\* physical address of the read-for-allocate access
WriteAllocateWriteback(uid, fetch, evicted) ==
    LET physical_addr == to_physical_address(fetch.addr)
        tlx_addr == [to_physical_address(evicted.block_addr) EXCEPT
                       !.chip = fetch.physical_addr.chip,
                       !.sub_partition = fetch.physical_addr.sub_partition]
    IN MemFetchBuild(uid, "L1_WRBK_ACC", evicted.block_addr, evicted.modified_size,
                     FALSE, physical_addr)

\* write_miss_write_allocate_naive after send_read_request returned r
WriteAllocateSent(r, cf, fetch, uid) ==
    IF r.panic
    THEN Result(r.c, "RESERVATION_FAIL",
                Append(r.events, Event("WRITE_ALLOCATE_SENT", NoEvicted)), 1, TRUE)
    ELSE IF r.should_miss
    THEN IF r.writeback /\ cf.write_policy # "WRITE_THROUGH"
            /\ r.evicted # NoEvicted
         THEN Result(send_write_request(r.c,
                        WriteAllocateWriteback(uid + 1, fetch, r.evicted)),
                     "MISS",
                     r.events \o <<Event("WRITE_ALLOCATE_SENT", NoEvicted),
                                   Event("WRITE_BACK_REQUEST_SENT", r.evicted)>>,
                     2, FALSE)
         ELSE Result(r.c, "MISS",
                     Append(r.events, Event("WRITE_ALLOCATE_SENT", NoEvicted)),
                     1, FALSE)
    ELSE Result(r.c, "RESERVATION_FAIL",
                Append(r.events, Event("WRITE_ALLOCATE_SENT", NoEvicted)), 1, FALSE)

\* write_miss_write_allocate_naive after the write was put in the miss queue
WriteAllocateWritten(c1, e1, cf, addr, cache_index, fetch, t, uid) ==
    IF cache_index = NoIndex
    THEN Result(c1, "RESERVATION_FAIL", e1, 1, FALSE)
    ELSE WriteAllocateSent(
            send_read_request(c1, cf, addr, block_addr(addr), cache_index,
                              WriteAllocateRead(uid, fetch), t, e1, FALSE, TRUE),
            cf, fetch, uid)

\* the failing branch of write_miss_write_allocate_naive
WriteAllocateFailed(cc, fetch, events, failure) ==
    IF failure = "PANIC"
    THEN Result(cc, "RESERVATION_FAIL", events, 0, TRUE)
    ELSE Result([cc EXCEPT !.stats = Inc(@, fetch.kind, failure)],
                "RESERVATION_FAIL", events, 0, FALSE)

\* variant: the write is put in the miss queue before the resources are checked
write_miss_write_allocate_naive_WriteFirst(cc, cf, addr, cache_index, fetch, t, events, uid) ==
    IF WaMustFail(cc, cf, fetch)
    THEN WriteAllocateFailed(send_write_request(cc, fetch), fetch, events,
                             WaFailure(cc, cf, fetch))
    ELSE WriteAllocateWritten(send_write_request(cc, fetch),
                              Append(events, Event("WRITE_REQUEST_SENT", NoEvicted)),
                              cf, addr, cache_index, fetch, t, uid)

write_miss_write_allocate_naive(cc, cf, addr, cache_index, fetch, t, events, uid) ==
    IF WaMustFail(cc, cf, fetch)
    THEN WriteAllocateFailed(cc, fetch, events, WaFailure(cc, cf, fetch))
    ELSE WriteAllocateWritten(send_write_request(cc, fetch),
                              Append(events, Event("WRITE_REQUEST_SENT", NoEvicted)),
                              cf, addr, cache_index, fetch, t, uid)

write_miss(cc, cf, addr, cache_index, fetch, t, events, uid) ==
    IF cf.write_allocate_policy = "NO_WRITE_ALLOCATE"
    THEN write_miss_no_write_allocate(cc, cf, addr, fetch, t, events)
    ELSE write_miss_write_allocate_naive(cc, cf, addr, cache_index, fetch, t, events, uid)

write_hit(cc, cf, addr, fetch, t, events) ==
    IF cf.write_policy = "WRITE_BACK"
    THEN write_hit_write_back(cc, cf, addr, fetch, t, events)
    ELSE Result(cc, "HIT", events, 0, TRUE)

\* the bandwidth charge that follows process_tag_probe in Data::access
ChargeDataPort(r, occ) ==
    IF r.panic \/ occ = NoIndex
    THEN [r EXCEPT !.panic = TRUE]
    ELSE [r EXCEPT !.c.data_port_occupied_cycles = occ]

UseDataPort(r, fetch) ==
    ChargeDataPort(r, use_data_port(r.c.data_port_occupied_cycles, fetch.data_size,
                                    r.status, r.events))

LineAllocFail(cc, fetch) ==
    Result([cc EXCEPT !.stats = Inc(@, fetch.kind, "LINE_ALLOC_FAIL")],
           "RESERVATION_FAIL", <<>>, 0, FALSE)

process_tag_probe(cc, cf, probe, addr, fetch, t, uid) ==
    UseDataPort(
      IF is_write(fetch)
      THEN CASE probe.status = "HIT" ->
                  write_hit(cc, cf, addr, fetch, t, <<>>)
             [] probe.status # "HIT" /\ probe.index = NoIndex
                /\ cf.write_allocate_policy # "NO_WRITE_ALLOCATE" ->
                  LineAllocFail(cc, fetch)
             [] OTHER ->
                  write_miss(cc, cf, addr, probe.index, fetch, t, <<>>, uid)
      ELSE CASE probe.index = NoIndex -> LineAllocFail(cc, fetch)
             [] probe.index # NoIndex /\ probe.status = "HIT" ->
                  read_hit(cc, cf, addr, fetch, t, <<>>)
             [] OTHER ->
                  read_miss(cc, cf, addr, probe.index, fetch, t, <<>>, uid),
      fetch)

\* variant: the statistic is always the final status
StatStatus_Final(probe_status, access_status) == access_status

\* the status statistic Data::access records
StatStatus(probe_status, access_status) ==
    CASE probe_status = "HIT_RESERVED" /\ access_status # "RESERVATION_FAIL" ->
            probe_status
      [] probe_status = "SECTOR_MISS" /\ access_status # "MISS" -> probe_status
      [] OTHER -> access_status

\* the status statistic and the result of an access
RecordAccess(r, probe_status, kind) ==
    [c |-> IF r.panic THEN r.c
           ELSE [r.c EXCEPT !.stats = Inc(@, kind, StatStatus(probe_status, r.status))],
     status |-> r.status, events |-> r.events, built |-> r.built,
     panic |-> r.panic, probe |-> probe_status]

DataAccessProbed(cc, cf, probe, addr, fetch, t, uid) ==
    RecordAccess(process_tag_probe(cc, cf, probe, addr, fetch, t, uid),
                 probe.status, fetch.kind)

DataAccess(cc, cf, addr, fetch, t, uid) ==
    DataAccessProbed(cc, cf, TagProbe(cc.ta.lines, block_addr(addr)), addr, fetch,
                     t, uid)

\* ------------------------------------------------------------------------
\* Read-only cache
\* ------------------------------------------------------------------------
\* the access time ReadOnly::access hands to the tag array
ReadOnlyTime(t) == 0

ReadOnlyHit(cc, acc) == Result([cc EXCEPT !.ta = acc.ta], acc.status, <<>>, 0, FALSE)

ReadOnlySent(q) ==
    Result(q.c, IF q.should_miss THEN "MISS" ELSE "RESERVATION_FAIL",
           q.events, 0, q.panic)

ReadOnlyProbed(cc, cf, probe, addr, fetch, tm) ==
    CASE probe.status = "HIT" ->
           ReadOnlyHit(cc, TagAccess(cc.ta, cf, block_addr(addr), tm))
      [] probe.status # "HIT" /\ probe.status # "RESERVATION_FAIL" ->
           IF ~miss_queue_full(cc, cf)
           THEN ReadOnlySent(send_read_request(cc, cf, addr, block_addr(addr),
                                               probe.index, fetch, tm, <<>>,
                                               TRUE, FALSE))
           ELSE Result([cc EXCEPT !.stats = Inc(@, fetch.kind, "MISS_QUEUE_FULL")],
                       "RESERVATION_FAIL", <<>>, 0, FALSE)
      [] OTHER -> LineAllocFail(cc, fetch)

ReadOnlyAccessProbed(cc, cf, probe, addr, fetch, t) ==
    RecordAccess(ReadOnlyProbed(cc, cf, probe, addr, fetch, ReadOnlyTime(t)),
                 probe.status, fetch.kind)

ReadOnlyAccess(cc, cf, addr, fetch, t) ==
    ReadOnlyAccessProbed(cc, cf, TagProbe(cc.ta.lines, block_addr(addr)), addr,
                         fetch, t)

\* ------------------------------------------------------------------------
\* Fill
\* ------------------------------------------------------------------------
\* variant: only the size is restored
RestoreFetch_KeepsAddr(fetch, pending) ==
    [fetch EXCEPT !.data_size = pending.data_size]

\* fill restores the size and the address the request had before it was sent
RestoreFetch(fetch, pending) ==
    [fetch EXCEPT !.data_size = pending.data_size, !.addr = pending.addr]

\* the atomic branch of fill: the block is set MODIFIED, then tested
FillMarkModified(ta, index) ==
    LET lines == [ta.lines EXCEPT ![index].status = "MODIFIED"]
    IN [lines |-> lines,
        num_dirty |-> IF ~is_modified(lines[index]) THEN ta.num_dirty + 1
                      ELSE ta.num_dirty]

RemovePending(pending, uid) == [u \in DOMAIN pending \ {uid} |-> pending[u]]

\* fill for a fetch with pending record p
FillPending(cc, cf, fetch, t, p, has_atomic) ==
    [c |-> [cc EXCEPT
              !.pending = RemovePending(@, fetch.uid),
              !.fill_port_occupied_cycles = use_fill_port(@),
              !.ta = IF has_atomic /\ cf.allocate_policy = "ON_MISS"
                     THEN FillMarkModified(TagFillOnMiss(cc.ta, p.cache_index),
                                           p.cache_index)
                     ELSE IF cf.allocate_policy = "ON_MISS"
                     THEN TagFillOnMiss(cc.ta, p.cache_index)
                     ELSE TagFillOnFill(cc.ta, p.block_addr, t),
              !.mshrs = MshrMarkReady(@, p.block_addr)],
     fetch |-> RestoreFetch(fetch, p),
     panic |-> has_atomic /\ cf.allocate_policy # "ON_MISS"]

Fill(cc, cf, fetch, t) ==
    IF ~waiting_for_fill(cc, fetch.uid)
    THEN [c |-> cc, fetch |-> fetch, panic |-> TRUE]
    ELSE FillPending(cc, cf, fetch, t, cc.pending[fetch.uid],
                     MshrHasAtomic(cc.mshrs, cc.pending[fetch.uid].block_addr))

\* ------------------------------------------------------------------------
\* Cycle
\* ------------------------------------------------------------------------
\* variant: the port's answer is not consulted
BaseCycle_IgnoresPort(cc, port_full) ==
    LET push == cc.miss_queue # <<>>
    IN [c |-> replenish_port_bandwidth(
                [cc EXCEPT !.miss_queue = IF push THEN Tail(@) ELSE @]),
        pushed |-> IF push THEN <<Head(cc.miss_queue)>> ELSE <<>>]

\* Base::cycle; port_full is what mem_port.full() answers for the head fetch.
\* Returns the new cache and the fetches pushed to the port.
BaseCycle(cc, port_full) ==
    LET push == cc.miss_queue # <<>> /\ ~port_full
    IN [c |-> replenish_port_bandwidth(
                [cc EXCEPT !.miss_queue = IF push THEN Tail(@) ELSE @]),
        pushed |-> IF push THEN <<Head(cc.miss_queue)>> ELSE <<>>]

\* ------------------------------------------------------------------------
\* Sector cache block: Data::write_hit_write_back and Data::update_readable
\* ------------------------------------------------------------------------
SECTOR_CHUNCK_SIZE == 3
SECTOR_SIZE == 2

Sectors == 0..(SECTOR_CHUNCK_SIZE - 1)
Bytes == 0..(SECTOR_CHUNCK_SIZE * SECTOR_SIZE - 1)
SectorBytes(i) == (i * SECTOR_SIZE)..((i + 1) * SECTOR_SIZE - 1)

\* the two readings of block.set_readable(readable, mask): the readable bit of
\* every sector of the mask, or of the first sector of the mask
SetReadableReadings == {"mask", "first_sector"}

\* a block whose sectors are valid, nothing written yet
NewBlock(reading) ==
    [modified |-> [i \in Sectors |-> FALSE],
     readable |-> [i \in Sectors |-> TRUE],
     dirty_byte_mask |-> [k \in Bytes |-> FALSE],
     num_dirty |-> 0,
     set_readable |-> reading]

\* block.is_modified(): some sector is MODIFIED
block_is_modified(b) == \E i \in Sectors : b.modified[i]

\* block.set_status(MODIFIED, sector_mask)
block_set_modified(b, sector_mask) ==
    [b EXCEPT !.modified = [i \in Sectors |-> @[i] \/ i \in sector_mask]]

\* block.set_byte_mask(byte_mask): the written bytes become dirty
block_set_byte_mask(b, byte_mask) ==
    [b EXCEPT !.dirty_byte_mask = [k \in Bytes |-> @[k] \/ k \in byte_mask]]

\* block.set_readable(readable, sector_mask)
block_set_readable(b, readable, sector_mask) ==
    IF b.set_readable = "first_sector"
    THEN [b EXCEPT !.readable[MinIndex(sector_mask)] = readable]
    ELSE [b EXCEPT !.readable = [i \in Sectors |->
                                    IF i \in sector_mask THEN readable ELSE @[i]]]

\* update_readable: some sector of the mask has all its bytes dirty
SomeSectorAllSet(b, sector_mask) ==
    \E i \in sector_mask : \A k \in SectorBytes(i) : b.dirty_byte_mask[k]

\* update_readable: every fully dirty sector of the mask calls
\* block.set_readable(true, &fetch.access.sector_mask), with the whole mask
update_readable(b, sector_mask) ==
    IF SomeSectorAllSet(b, sector_mask)
    THEN block_set_readable(b, TRUE, sector_mask)
    ELSE b

\* write_hit_write_back, on the block the tag array returned
BlockWriteHit(b, sector_mask, byte_mask) ==
    LET written == block_set_byte_mask(block_set_modified(b, sector_mask), byte_mask)
        counted == [written EXCEPT !.num_dirty =
                       IF block_is_modified(b) THEN @ ELSE @ + 1]
    IN update_readable(counted, sector_mask)

\* the initial blocks: each sector readable (filled) or not (allocated by a
\* store that has not written all of it)
InitialBlocks ==
    {[NewBlock(reading) EXCEPT !.readable = r] :
        reading \in SetReadableReadings, r \in [Sectors -> BOOLEAN]}

\* the stores: a non-empty byte mask and the mask of the sectors it touches
StoreMasks ==
    {[byte_mask |-> bm,
      sector_mask |-> {i \in Sectors : SectorBytes(i) \cap bm # {}}] :
        bm \in (SUBSET Bytes) \ {{}}}

\* ------------------------------------------------------------------------
\* SIMT core: block issue, fetch, decode, issue, execute, writeback
\* ------------------------------------------------------------------------
MaxKernelBlocks == 3
MaxBlockSize == 3

WarpSize == 2
MaxThreadsPerCore == 4
MAX_CTA_PER_SHADER == 2
MaxThroughput == 2

Tids == 0..(MaxThreadsPerCore - 1)
WarpIds == 0..((MaxThreadsPerCore \div WarpSize) - 1)
BlockSlots == 0..(MAX_CTA_PER_SHADER - 1)
Lanes == 0..(WarpSize - 1)
max_warps_per_core == MaxThreadsPerCore \div WarpSize

\* a warp instruction: opcode category, destination register (0 = none),
\* issuing warp, active lanes, latency, index in the warp's trace
NoInstr == [op |-> "NONE", dest |-> 0, warp_id |-> 0, active_mask |-> {}, latency |-> 0, trace_idx |-> 0, uid |-> 0]
TraceInstr(op, dest) == [NoInstr EXCEPT !.op = op, !.dest = dest, !.latency = 1]

\* the instruction traces of a warp: they end in the EXIT instruction
Traces ==
    {<<TraceInstr("EXIT_OPS", 0)>>,
     <<TraceInstr("ALU_OP", 1), TraceInstr("ALU_OP", 1), TraceInstr("EXIT_OPS", 0)>>,
     <<TraceInstr("ALU_OP", 1), TraceInstr("ALU_OP", 2), TraceInstr("EXIT_OPS", 0)>>}

\* the kernels: block size, trace of each warp, blocks not yet issued
Kernels ==
    [threads_per_block : 1..MaxBlockSize, trace : Traces, blocks_left : {MaxKernelBlocks}]

no_more_blocks_to_run(kernel) == kernel.blocks_left = 0
threads_per_block_padded(kernel) == CeilDiv(kernel.threads_per_block, WarpSize) * WarpSize

\* config.max_blocks(kernel): the blocks whose threads fit on the core
max_blocks(kernel) ==
    LET by_threads == MaxThreadsPerCore \div threads_per_block_padded(kernel)
    IN IF by_threads < MAX_CTA_PER_SHADER THEN by_threads ELSE MAX_CTA_PER_SHADER

\* warp::Warp
NewWarp ==
    [block_id |-> 0, active_mask |-> {}, trace |-> <<>>, trace_pc |-> 0,
     ibuffer |-> <<>>, num_instr_in_pipeline |-> 0, done_exit |-> TRUE,
     has_imiss_pending |-> FALSE, issued |-> <<>>,
     waiting_for_memory_barrier |-> FALSE]

warp_init(block_hw_id, mask) ==
    [NewWarp EXCEPT !.block_id = block_hw_id, !.active_mask = mask, !.done_exit = FALSE]

warp_done(w) == w.trace_pc = Len(w.trace)
functional_done(w) == w.active_mask = {}
hardware_done(w) == functional_done(w) /\ w.num_instr_in_pipeline = 0
ibuffer_empty(w) == w.ibuffer = <<>>

\* core configurations: register file port and instruction fetch throughput,
\* perfect instruction cache
CoreConfigs ==
    [reg_file_port_throughput : 1..MaxThroughput,
     inst_fetch_throughput : 1..MaxThroughput,
     perfect_inst_const_cache : BOOLEAN]

PipelineStages == {"ID_OC", "OC_EX", "EX_WB"}

\* Core::new
NewCore(config, kernel) ==
    [config |-> config,
     kernel |-> kernel,
     current_kernel |-> FALSE,
     warp_instruction_unique_uid |-> 0,
     issue_warp_result |-> "Ok",
     block_status |-> [b \in BlockSlots |-> 0],
     num_active_blocks |-> 0,
     num_active_warps |-> 0,
     num_active_threads |-> 0,
     active_thread_mask |-> {},
     thread_state |-> [t \in Tids |-> "NONE"],
     warps |-> [w \in WarpIds |-> NewWarp],
     instr_fetch_buffer |-> [valid |-> FALSE, warp_id |-> 0],
     last_warp_fetched |-> NoIndex,
     instr_l1_cache |-> <<>>,
     pipeline_reg |-> [s \in PipelineStages |-> NoInstr],
     functional_unit |-> NoInstr,
     result_bus |-> {},
     scoreboard |-> {},
     barriers |-> {},
     panic |-> FALSE,
     stages |-> <<>>,
     reclaimed |-> {},
     icache_accesses |-> <<>>,
     log_fetches |-> FALSE,
     fetched |-> <<>>]

\* usize subtraction
CheckedDec(n) == IF n = 0 THEN 0 ELSE n - 1

\* --- block issue ---------------------------------------------------------
\* current_kernel is TRUE when self.current_kernel is Some(kernel); the kernel
\* itself is cr.kernel
set_kernel(cr, kernel) == [cr EXCEPT !.current_kernel = TRUE, !.kernel = kernel]

can_issue_block(cr, kernel) == cr.num_active_blocks < max_blocks(kernel)

FreeSlots(cr, kernel) == {i \in 0..(max_blocks(kernel) - 1) : cr.block_status[i] = 0}

\* reinit(start_thread, end_thread, false)
reinit(cr, start_thread, end_thread) ==
    [cr EXCEPT
       !.thread_state = [t \in Tids |->
           IF t >= start_thread /\ t < end_thread THEN "NONE" ELSE @[t]],
       !.warps = [w \in WarpIds |->
           IF w >= start_thread \div WarpSize /\ w < end_thread \div WarpSize
           THEN NewWarp ELSE @[w]]]

\* the lanes of warp_id below end_thread
LocalActiveMask(warp_id, end_thread) ==
    {l \in Lanes : warp_id * WarpSize + l < end_thread}

\* the warps init_warps initialises
InitWarpIds(start_thread, end_thread) ==
    {w \in WarpIds : /\ w >= start_thread \div WarpSize
                     /\ w < CeilDiv(end_thread, WarpSize)}

\* the trace of a warp of the kernel's next block
WarpTrace(kernel, mask) ==
    [i \in 1..Len(kernel.trace) |->
        [kernel.trace[i] EXCEPT !.active_mask = mask, !.trace_idx = i]]

\* init_warps and init_warps_from_traces
init_warps(cr, block_hw_id, start_thread, end_thread, kernel) ==
    [cr EXCEPT
       !.active_thread_mask =
           @ \cup {t \in Tids : t >= (start_thread \div WarpSize) * WarpSize
                                /\ t < end_thread},
       !.warps = [w \in WarpIds |->
           IF w \in InitWarpIds(start_thread, end_thread)
           THEN [warp_init(block_hw_id, LocalActiveMask(w, end_thread)) EXCEPT
                   !.trace = WarpTrace(kernel, LocalActiveMask(w, end_thread))]
           ELSE @[w]],
       !.num_active_warps = @ + Cardinality(InitWarpIds(start_thread, end_thread)),
       !.num_active_threads =
           @ + Cardinality({t \in Tids : t >= (start_thread \div WarpSize) * WarpSize
                                         /\ t < end_thread}),
       !.kernel.blocks_left = @ - 1]

\* the thread states, block status and barrier issue_block sets
BlockThreadsIssued(cr, free_block_hw_id, start_thread, end_thread, kernel) ==
    [cr EXCEPT
       !.thread_state = [t \in Tids |->
           IF t >= start_thread /\ t < end_thread THEN "ACTIVE" ELSE @[t]],
       !.block_status[free_block_hw_id] =
           IF no_more_blocks_to_run(kernel) THEN 0 ELSE end_thread - start_thread,
       !.barriers = @ \cup {free_block_hw_id}]

IssueBlockAt(cr, kernel, slot, start_thread, end_thread) ==
    [init_warps(
       BlockThreadsIssued(reinit(cr, start_thread, end_thread),
                          slot, start_thread, end_thread, kernel),
       slot, start_thread, end_thread, kernel)
     EXCEPT !.num_active_blocks = @ + 1]

\* variant: the block takes the highest free slot
issue_block_HighestSlot(cr, kernel) ==
    IF FreeSlots(cr, kernel) = {}
    THEN [cr EXCEPT !.panic = TRUE]
    ELSE LET slot == CHOOSE i \in FreeSlots(cr, kernel) :
                        \A j \in FreeSlots(cr, kernel) : j <= i
         IN IssueBlockAt(cr, kernel, slot,
                         slot * threads_per_block_padded(kernel),
                         slot * threads_per_block_padded(kernel)
                           + kernel.threads_per_block)

issue_block(cr, kernel) ==
    IF FreeSlots(cr, kernel) = {}
    THEN [cr EXCEPT !.panic = TRUE]
    ELSE IssueBlockAt(cr, kernel, MinIndex(FreeSlots(cr, kernel)),
                      MinIndex(FreeSlots(cr, kernel)) * threads_per_block_padded(kernel),
                      MinIndex(FreeSlots(cr, kernel)) * threads_per_block_padded(kernel)
                        + kernel.threads_per_block)

\* --- fetch ---------------------------------------------------------------
\* variant: the block's barrier outlives the block
register_thread_in_block_exited_KeepsBarrier(cr, block_hw_id) ==
    IF cr.block_status[block_hw_id] = 0
    THEN [cr EXCEPT !.panic = TRUE]
    ELSE IF cr.block_status[block_hw_id] = 1
    THEN [cr EXCEPT !.block_status[block_hw_id] = 0,
                    !.num_active_blocks = CheckedDec(@),
                    !.panic = @ \/ cr.num_active_blocks = 0]
    ELSE [cr EXCEPT !.block_status[block_hw_id] = @ - 1]

\* `current_kernel` in the source is a mutable reference to a temporary
\* Option<&Kernel> built by as_ref().map(..): the two `*current_kernel = None`
\* assignments write that temporary, and self.current_kernel keeps its value
register_thread_in_block_exited(cr, block_hw_id) ==
    IF cr.block_status[block_hw_id] = 0
    THEN [cr EXCEPT !.panic = TRUE]
    ELSE IF cr.block_status[block_hw_id] = 1
    THEN [cr EXCEPT !.block_status[block_hw_id] = 0,
                    !.barriers = @ \ {block_hw_id},
                    !.num_active_blocks = CheckedDec(@),
                    !.panic = @ \/ cr.num_active_blocks = 0]
    ELSE [cr EXCEPT !.block_status[block_hw_id] = @ - 1]

has_pending_writes(cr, warp_id) == \E e \in cr.scoreboard : e[1] = warp_id

did_maybe_exit(cr, warp_id) ==
    /\ hardware_done(cr.warps[warp_id])
    /\ ~has_pending_writes(cr, warp_id)
    /\ ~cr.warps[warp_id].done_exit

\* one thread of a reclaimed warp
ThreadExited(cr, block_hw_id, tid) ==
    [register_thread_in_block_exited(
        [cr EXCEPT !.thread_state[tid] = "DONE"], block_hw_id)
     EXCEPT !.num_active_threads = CheckedDec(@),
            !.panic = @ \/ cr.num_active_threads = 0,
            !.active_thread_mask = @ \ {tid}]

RECURSIVE ReclaimThreads(_, _, _, _)
ReclaimThreads(cr, warp_id, block_hw_id, t) ==
    IF t = WarpSize
    THEN cr
    ELSE ReclaimThreads(
           IF cr.thread_state[warp_id * WarpSize + t] = "ACTIVE"
           THEN ThreadExited(cr, block_hw_id, warp_id * WarpSize + t)
           ELSE cr,
           warp_id, block_hw_id, t + 1)

\* what the core observed of the warp it reclaims
ReclaimRecord(cr, warp_id) ==
    [warp_id |-> warp_id,
     block_hw_id |-> cr.warps[warp_id].block_id,
     hardware_done |-> hardware_done(cr.warps[warp_id]),
     pending_writes |-> has_pending_writes(cr, warp_id),
     done_exit |-> cr.warps[warp_id].done_exit,
     threads |-> Cardinality({l \in Lanes :
                    cr.thread_state[warp_id * WarpSize + l] = "ACTIVE"}),
     block_status |-> cr.block_status[cr.warps[warp_id].block_id],
     num_active_blocks |-> cr.num_active_blocks]

\* the warp after its threads were reclaimed
WarpReclaimed(cr, reclaimed, warp_id, did_exit, record) ==
    [reclaimed EXCEPT
       !.num_active_warps = CheckedDec(@),
       !.panic = @ \/ cr.num_active_warps = 0,
       !.warps[warp_id].done_exit = @ \/ did_exit,
       !.reclaimed = @ \cup {record}]

\* fetch: check if this warp has finished executing and can be reclaimed
ReclaimWarp(cr, warp_id) ==
    IF did_maybe_exit(cr, warp_id)
    THEN WarpReclaimed(
           cr,
           ReclaimThreads(cr, warp_id, cr.warps[warp_id].block_id, 0),
           warp_id,
           \E l \in Lanes : cr.thread_state[warp_id * WarpSize + l] = "ACTIVE",
           ReclaimRecord(cr, warp_id))
    ELSE cr

should_fetch_instruction(w) ==
    ~functional_done(w) /\ ~w.has_imiss_pending /\ ibuffer_empty(w)

\* variant: a miss is not recorded in the warp
FetchInstruction_MissNotPending(cr, warp_id, status) ==
    IF warp_done(cr.warps[warp_id])
    THEN [cr EXCEPT !.panic = TRUE]
    ELSE CASE status = "MISS" ->
                [cr EXCEPT !.last_warp_fetched = warp_id,
                           !.icache_accesses = Append(@, warp_id),
                           !.instr_l1_cache = Append(@, warp_id)]
           [] status = "HIT" ->
                [cr EXCEPT !.last_warp_fetched = warp_id,
                           !.icache_accesses = Append(@, warp_id),
                           !.instr_fetch_buffer = [valid |-> TRUE, warp_id |-> warp_id]]
           [] OTHER -> [cr EXCEPT !.last_warp_fetched = warp_id,
                                  !.icache_accesses = Append(@, warp_id)]

\* variant: a failed access does not move last_warp_fetched
FetchInstruction_FailKeepsLast(cr, warp_id, status) ==
    IF warp_done(cr.warps[warp_id])
    THEN [cr EXCEPT !.panic = TRUE]
    ELSE CASE status = "MISS" ->
                [cr EXCEPT !.last_warp_fetched = warp_id,
                           !.icache_accesses = Append(@, warp_id),
                           !.warps[warp_id].has_imiss_pending = TRUE,
                           !.instr_l1_cache = Append(@, warp_id)]
           [] status = "HIT" ->
                [cr EXCEPT !.last_warp_fetched = warp_id,
                           !.icache_accesses = Append(@, warp_id),
                           !.instr_fetch_buffer = [valid |-> TRUE, warp_id |-> warp_id]]
           [] OTHER -> [cr EXCEPT !.icache_accesses = Append(@, warp_id)]

\* fetch: access the instruction cache for the warp's next instruction
FetchInstruction(cr, warp_id, status) ==
    IF warp_done(cr.warps[warp_id])
    THEN [cr EXCEPT !.panic = TRUE]
    ELSE CASE status = "MISS" ->
                [cr EXCEPT !.last_warp_fetched = warp_id,
                           !.icache_accesses = Append(@, warp_id),
                           !.warps[warp_id].has_imiss_pending = TRUE,
                           !.instr_l1_cache = Append(@, warp_id)]
           [] status = "HIT" ->
                [cr EXCEPT !.last_warp_fetched = warp_id,
                           !.icache_accesses = Append(@, warp_id),
                           !.instr_fetch_buffer = [valid |-> TRUE, warp_id |-> warp_id]]
           [] OTHER -> [cr EXCEPT !.last_warp_fetched = warp_id,
                                  !.icache_accesses = Append(@, warp_id)]

\* the warp fetch considers in iteration i
FetchWarpId(cr, i) ==
    ((IF cr.last_warp_fetched = NoIndex THEN 0 ELSE cr.last_warp_fetched) + 1 + i)
      % max_warps_per_core

FetchOrNext(cr, warp_id, status) ==
    IF should_fetch_instruction(cr.warps[warp_id])
    THEN [fetched |-> TRUE, core |-> FetchInstruction(cr, warp_id, status)]
    ELSE [fetched |-> FALSE, core |-> cr]

RECURSIVE FetchWarps(_, _, _)
FetchWarpsNext(r, i, status) ==
    IF r.fetched THEN r.core ELSE FetchWarps(r.core, i + 1, status)

FetchWarps(cr, i, status) ==
    IF i = max_warps_per_core
    THEN cr
    ELSE FetchWarpsNext(
           FetchOrNext(ReclaimWarp(cr, FetchWarpId(cr, i)), FetchWarpId(cr, i), status),
           i, status)

\* fetch: the instruction cache returned the instruction of a warp
FetchResponse(cr) ==
    [cr EXCEPT !.warps[Head(cr.instr_l1_cache)].has_imiss_pending = FALSE,
               !.instr_fetch_buffer = [valid |-> TRUE, warp_id |-> Head(cr.instr_l1_cache)],
               !.instr_l1_cache = Tail(@)]

\* what a fetch step saw and what it left: the fetch buffer, whether a ready
\* access was taken, last_warp_fetched, the warps that should fetch, the
\* status and the warps of its instruction cache accesses
FetchRecord(pre, post, status, ready) ==
    [valid |-> pre.instr_fetch_buffer.valid,
     ready |-> ready /\ pre.instr_l1_cache # <<>>,
     last |-> pre.last_warp_fetched,
     eligible |-> {w \in WarpIds : should_fetch_instruction(pre.warps[w])},
     status |-> status,
     prev_fail |-> IF pre.fetched # <<>> /\ pre.fetched[1].status = "RESERVATION_FAIL"
                      /\ pre.fetched[1].accesses # <<>>
                   THEN pre.fetched[1].accesses[1] ELSE NoIndex,
     accesses |-> post.icache_accesses,
     last_after |-> post.last_warp_fetched,
     imiss_after |-> {w \in WarpIds : post.warps[w].has_imiss_pending},
     buffer_after |-> post.instr_fetch_buffer]

\* the record of the last fetch step is kept where fetches are logged
FetchStep(pre, post, status, ready) ==
    IF pre.log_fetches
    THEN [post EXCEPT !.stages = Append(@, "fetch"),
                      !.fetched = <<FetchRecord(pre, post, status, ready)>>]
    ELSE [post EXCEPT !.stages = Append(@, "fetch"), !.icache_accesses = <<>>]

\* Core::fetch; status is what the instruction cache answers to an access and
\* ready whether it has a ready access
core_fetch(cr, status, ready) ==
    FetchStep(cr,
              IF cr.instr_fetch_buffer.valid
              THEN [cr EXCEPT !.icache_accesses = <<>>]
              ELSE IF ready /\ cr.instr_l1_cache # <<>>
              THEN FetchResponse([cr EXCEPT !.icache_accesses = <<>>])
              ELSE FetchWarps([cr EXCEPT !.icache_accesses = <<>>], 0,
                              IF cr.config.perfect_inst_const_cache THEN "HIT" ELSE status),
              IF cr.config.perfect_inst_const_cache THEN "HIT" ELSE status, ready)

\* --- decode --------------------------------------------------------------
\* variant: the instruction is buffered without being counted
decode_instruction_Uncounted(cr, warp_id, instr) ==
    [cr EXCEPT !.warps[warp_id].ibuffer = Append(@, instr)]

decode_instruction(cr, warp_id, instr) ==
    [cr EXCEPT !.warps[warp_id].ibuffer = Append(@, instr),
               !.warps[warp_id].num_instr_in_pipeline = @ + 1]

\* warp.next_trace_inst() followed by decode_instruction
DecodeNext(cr, warp_id) ==
    IF warp_done(cr.warps[warp_id])
    THEN cr
    ELSE decode_instruction(
           [cr EXCEPT !.warps[warp_id].trace_pc = @ + 1],
           warp_id,
           [cr.warps[warp_id].trace[cr.warps[warp_id].trace_pc + 1]
              EXCEPT !.warp_id = warp_id])

\* variant: the second instruction is buffered in front of the first
core_decode_SecondFirst(cr) ==
    [(IF ~cr.instr_fetch_buffer.valid
      THEN cr
      ELSE [ DecodeNext(DecodeNext(cr, cr.instr_fetch_buffer.warp_id),
                        cr.instr_fetch_buffer.warp_id)
             EXCEPT !.instr_fetch_buffer.valid = FALSE,
                    !.warps[cr.instr_fetch_buffer.warp_id].ibuffer =
                        [i \in 1..Len(@) |-> @[Len(@) + 1 - i]] ])
     EXCEPT !.stages = Append(@, "decode")]

core_decode(cr) ==
    [(IF ~cr.instr_fetch_buffer.valid
      THEN cr
      ELSE [ DecodeNext(DecodeNext(cr, cr.instr_fetch_buffer.warp_id),
                        cr.instr_fetch_buffer.warp_id)
             EXCEPT !.instr_fetch_buffer.valid = FALSE ])
     EXCEPT !.stages = Append(@, "decode")]

\* --- issue ---------------------------------------------------------------
Outputs(instr) == IF instr.dest = 0 THEN {} ELSE {<<instr.warp_id, instr.dest>>}

\* warp.ibuffer_flush(): the buffered instructions leave the pipeline
ibuffer_flush(w) ==
    [w EXCEPT !.num_instr_in_pipeline = @ - Len(w.ibuffer), !.ibuffer = <<>>]

\* issue_warp: the warp after its next instruction was taken
WarpIssued(w, instr) ==
    LET taken == [w EXCEPT !.ibuffer = Tail(@),
                           !.issued = Append(@, instr.trace_idx),
                           !.waiting_for_memory_barrier =
                              IF instr.op = "MEMORY_BARRIER_OP" THEN TRUE ELSE @,
                           !.active_mask =
                              IF instr.op = "EXIT_OPS" THEN @ \ instr.active_mask ELSE @]
    IN IF warp_done(taken) /\ functional_done(taken) THEN ibuffer_flush(taken) ELSE taken

\* issue_warp from ibuffer_take on: next_instr left the i-buffer and has its uid
InstrIssued(cr, stage, warp_id, next_instr) ==
    [cr EXCEPT !.warps[warp_id] = WarpIssued(@, next_instr),
               !.scoreboard = @ \cup Outputs(next_instr),
               !.pipeline_reg[stage] = next_instr,
               !.issue_warp_result = "Ok"]

\* warp_instruction_unique_uid.fetch_add(1, SeqCst): the counter after it; the
\* value it returns is the counter before
fetch_add(counter) == counter + 1

\* variant: the uid counter is read and not advanced
issue_warp_UidNotAdvanced(cr, stage, warp_id) ==
    IF cr.pipeline_reg[stage] # NoInstr
    THEN [cr EXCEPT !.issue_warp_result = "Err"]
    ELSE IF cr.warps[warp_id].ibuffer = <<>>
    THEN [cr EXCEPT !.panic = TRUE]
    ELSE InstrIssued(cr, stage, warp_id,
                     [Head(cr.warps[warp_id].ibuffer)
                        EXCEPT !.uid = cr.warp_instruction_unique_uid])

\* variant: the instruction is taken from the i-buffer before the register is
\* looked for
issue_warp_TakesFirst(cr, stage, warp_id) ==
    IF cr.warps[warp_id].ibuffer = <<>>
    THEN [cr EXCEPT !.panic = TRUE]
    ELSE IF cr.pipeline_reg[stage] # NoInstr
    THEN [cr EXCEPT !.issue_warp_result = "Err", !.warps[warp_id].ibuffer = Tail(@)]
    ELSE InstrIssued([cr EXCEPT !.warp_instruction_unique_uid = fetch_add(@)],
                     stage, warp_id,
                     [Head(cr.warps[warp_id].ibuffer)
                        EXCEPT !.uid = cr.warp_instruction_unique_uid])

\* the stage's register set holds one register: get_free_mut finds it when it
\* is empty; ibuffer_take().unwrap() panics on an empty i-buffer
issue_warp(cr, stage, warp_id) ==
    IF cr.pipeline_reg[stage] # NoInstr
    THEN [cr EXCEPT !.issue_warp_result = "Err"]
    ELSE IF cr.warps[warp_id].ibuffer = <<>>
    THEN [cr EXCEPT !.panic = TRUE]
    ELSE InstrIssued([cr EXCEPT !.warp_instruction_unique_uid = fetch_add(@)],
                     stage, warp_id,
                     [Head(cr.warps[warp_id].ibuffer)
                        EXCEPT !.uid = cr.warp_instruction_unique_uid])

\* variant: the flag outlives the pending writes
warp_waiting_at_mem_barrier_KeepsFlag(cr, warp_id, flush_l1_cache) ==
    IF ~cr.warps[warp_id].waiting_for_memory_barrier
    THEN [core |-> cr, waiting |-> FALSE]
    ELSE IF \E e \in cr.scoreboard : e[1] = warp_id
    THEN [core |-> cr, waiting |-> TRUE]
    ELSE [core |-> [cr EXCEPT !.panic = @ \/ flush_l1_cache],
          waiting |-> FALSE]

\* the core after the call and the value returned; with flush_l1_cache the
\* call ends in todo!() once the flag is cleared
warp_waiting_at_mem_barrier(cr, warp_id, flush_l1_cache) ==
    IF ~cr.warps[warp_id].waiting_for_memory_barrier
    THEN [core |-> cr, waiting |-> FALSE]
    ELSE IF \E e \in cr.scoreboard : e[1] = warp_id
    THEN [core |-> cr, waiting |-> TRUE]
    ELSE [core |-> [cr EXCEPT !.warps[warp_id].waiting_for_memory_barrier = FALSE,
                              !.panic = @ \/ flush_l1_cache],
          waiting |-> FALSE]

\* the warps the scheduler can issue from
Issuable(cr) ==
    {w \in WarpIds : /\ cr.warps[w].ibuffer # <<>>
                     /\ ~cr.warps[w].done_exit
                     /\ Outputs(Head(cr.warps[w].ibuffer)) \cap cr.scoreboard = {}}

core_issue(cr) ==
    [(IF Issuable(cr) # {} /\ cr.pipeline_reg["ID_OC"] = NoInstr
      THEN issue_warp(cr, "ID_OC", MinIndex(Issuable(cr)))
      ELSE cr)
     EXCEPT !.stages = Append(@, "issue")]

\* --- operand collector, execute, writeback -------------------------------
operand_collector_step(cr) ==
    [(IF cr.pipeline_reg["ID_OC"] # NoInstr /\ cr.pipeline_reg["OC_EX"] = NoInstr
      THEN [cr EXCEPT !.pipeline_reg["OC_EX"] = cr.pipeline_reg["ID_OC"],
                      !.pipeline_reg["ID_OC"] = NoInstr]
      ELSE cr)
     EXCEPT !.stages = Append(@, "operand_collector")]

\* fu.cycle(): the unit's result moves to EX_WB
FunctionalUnitCycle(cr) ==
    IF cr.functional_unit # NoInstr /\ cr.pipeline_reg["EX_WB"] = NoInstr
    THEN [cr EXCEPT !.pipeline_reg["EX_WB"] = cr.functional_unit,
                    !.functional_unit = NoInstr]
    ELSE cr

\* execute: the ready instruction of the issue port enters the unit if the
\* unit can issue it and a result bus is free at its latency
ExecuteIssue(cr) ==
    IF /\ cr.pipeline_reg["OC_EX"] # NoInstr
       /\ cr.functional_unit = NoInstr
       /\ cr.pipeline_reg["OC_EX"].latency \notin cr.result_bus
    THEN [cr EXCEPT !.result_bus = @ \cup {cr.pipeline_reg["OC_EX"].latency},
                    !.functional_unit = cr.pipeline_reg["OC_EX"],
                    !.pipeline_reg["OC_EX"] = NoInstr]
    ELSE cr

core_execute(cr) ==
    [ExecuteIssue(FunctionalUnitCycle(
        [cr EXCEPT !.result_bus = {l - 1 : l \in {k \in @ : k > 0}}]))
     EXCEPT !.stages = Append(@, "execute")]

core_writeback(cr) ==
    [(IF cr.pipeline_reg["EX_WB"] # NoInstr
      THEN [cr EXCEPT
              !.scoreboard = @ \ Outputs(cr.pipeline_reg["EX_WB"]),
              !.warps[cr.pipeline_reg["EX_WB"].warp_id].num_instr_in_pipeline =
                  CheckedDec(@),
              !.panic = @ \/ cr.warps[cr.pipeline_reg["EX_WB"].warp_id]
                                  .num_instr_in_pipeline = 0,
              !.pipeline_reg["EX_WB"] = NoInstr]
      ELSE cr)
     EXCEPT !.stages = Append(@, "writeback")]

\* --- cycle ---------------------------------------------------------------
RECURSIVE OperandCollectorSteps(_, _)
OperandCollectorSteps(cr, n) ==
    IF n = 0 THEN cr ELSE OperandCollectorSteps(operand_collector_step(cr), n - 1)

\* the answers of the instruction cache in one cycle: whether it has a ready
\* access, and its status for the access of each fetch; a perfect instruction
\* cache is never accessed
CacheAnswers(config) ==
    IF config.perfect_inst_const_cache
    THEN [status : [1..config.inst_fetch_throughput -> {"HIT"}], ready : {FALSE}]
    ELSE [status : [1..config.inst_fetch_throughput ->
                       {"HIT", "MISS", "RESERVATION_FAIL"}],
          ready : BOOLEAN]

RECURSIVE DecodeFetch(_, _, _)
DecodeFetch(cr, i, answers) ==
    IF i > cr.config.inst_fetch_throughput
    THEN cr
    ELSE DecodeFetch(core_fetch(core_decode(cr), answers.status[i], answers.ready),
                     i + 1, answers)

\* variant: the instructions are issued before the units execute
CycleStages_IssueFirst(cr, answers) ==
    DecodeFetch(
      OperandCollectorSteps(core_execute(core_writeback(core_issue(cr))),
                            cr.config.reg_file_port_throughput),
      1, answers)

CycleStages(cr, answers) ==
    DecodeFetch(
      core_issue(
        OperandCollectorSteps(core_execute(core_writeback(cr)),
                              cr.config.reg_file_port_throughput)),
      1, answers)

is_active(cr) == cr.num_active_blocks > 0
not_completed(cr) == cr.num_active_threads

core_cycle(cr, answers) ==
    IF ~is_active(cr) /\ not_completed(cr) = 0
    THEN cr
    ELSE CycleStages([cr EXCEPT !.stages = <<>>, !.reclaimed = {}], answers)

\* a core without a kernel
IdleCore ==
    NewCore([reg_file_port_throughput |-> 1, inst_fetch_throughput |-> 1,
             perfect_inst_const_cache |-> FALSE],
            [threads_per_block |-> 1, trace |-> <<TraceInstr("EXIT_OPS", 0)>>,
             blocks_left |-> 0])

\* ------------------------------------------------------------------------
\* Cluster: issuing blocks to the cores
\* ------------------------------------------------------------------------
NumIssueCores == 3
IssueCoreIds == 0..(NumIssueCores - 1)

\* issue_block_to_core, lines 230-237: whether the visited core asks the
\* simulator for a kernel
should_select_new_kernel(cr) ==
    IF cr.current_kernel
    THEN no_more_blocks_to_run(cr.kernel) /\ not_completed(cr) = 0
    ELSE TRUE

\* lines 250-255: selected is whether sim.select_kernel() returns the kernel
BindKernel(cr, kernel, selected) ==
    IF should_select_new_kernel(cr) /\ selected THEN set_kernel(cr, kernel) ELSE cr

\* line 257: whether the visited core has a kernel to issue from
HasKernel(cr, selected) == IF should_select_new_kernel(cr) THEN selected ELSE TRUE

\* line 269
CanTakeBlock(cr, kernel, selected) ==
    /\ HasKernel(cr, selected)
    /\ ~no_more_blocks_to_run(kernel)
    /\ can_issue_block(BindKernel(cr, kernel, selected), kernel)

\* the kernel is shared by the cores (Arc<Kernel>)
ShareKernel(cores, kernel) == [i \in IssueCoreIds |-> [cores[i] EXCEPT !.kernel = kernel]]

\* lines 270-273: the block is issued to core_id
BlockIssuedTo(cl, core_id, issued_core) ==
    [cl EXCEPT !.cores = ShareKernel([@ EXCEPT ![core_id] = issued_core], issued_core.kernel),
               !.kernel = issued_core.kernel,
               !.block_issue_next_core = core_id,
               !.last.tried = Append(@, core_id),
               !.last.num_blocks_issued = @ + 1]

\* a core was visited and got no block
CoreVisited(cl, core_id, bound) ==
    [cl EXCEPT !.cores[core_id] = bound, !.last.tried = Append(@, core_id)]

\* the loop of issue_block_to_core from its i-th iteration on; first is the
\* core the first iteration visits
RECURSIVE IssueBlockLoop(_, _, _, _)
IssueBlockLoop(cl, i, first, selected) ==
    IF i >= NumIssueCores
    THEN cl
    ELSE IF CanTakeBlock(cl.cores[(i + first) % NumIssueCores], cl.kernel, selected)
    THEN BlockIssuedTo(cl, (i + first) % NumIssueCores,
                       issue_block(BindKernel(cl.cores[(i + first) % NumIssueCores],
                                              cl.kernel, selected), cl.kernel))
    ELSE IssueBlockLoop(CoreVisited(cl, (i + first) % NumIssueCores,
                                    BindKernel(cl.cores[(i + first) % NumIssueCores],
                                               cl.kernel, selected)),
                        i + 1, first, selected)

\* the record of one call: the cores visited in order, the blocks issued and
\* what select_kernel returned
NewIssueCall(selected) == [tried |-> <<>>, num_blocks_issued |-> 0, selected |-> selected]

\* variant: the scan starts at the core that received the previous block
issue_block_to_core_FromLast(cl, selected) ==
    IssueBlockLoop([cl EXCEPT !.last = NewIssueCall(selected)], 0,
                   cl.block_issue_next_core, selected)

issue_block_to_core(cl, selected) ==
    IssueBlockLoop([cl EXCEPT !.last = NewIssueCall(selected)], 0,
                   cl.block_issue_next_core + 1, selected)

\* Cluster::new for the block issue: the cores, the kernel of the simulator
NewIssueCluster(config, kernel) ==
    [cores |-> [i \in IssueCoreIds |-> NewCore(config, kernel)],
     kernel |-> kernel,
     block_issue_next_core |-> NumIssueCores - 1,
     last |-> NewIssueCall(FALSE)]

\* ------------------------------------------------------------------------
\* Cluster: responses from the interconnect
\* ------------------------------------------------------------------------
MaxEjectionBufferSize == 2
MaxPackets == 4
NumCoresPerCluster == 2
LdstResponseBufferSize == 1
ClusterId == 1

ClusterCoreIds == 0..(NumCoresPerCluster - 1)

global_core_id(cluster_id, core_id) == cluster_id * NumCoresPerCluster + core_id
global_core_id_to_core_id(global_id) == global_id % NumCoresPerCluster

\* a cluster: its response FIFO, the packets the interconnect holds for it,
\* per core the instruction cache fills and the load/store unit's response
\* buffer; and a record of what arrived, what was delivered where, and what
\* the last interconnect cycle saw and did
NewCluster(ejection_buffer_size) ==
    [num_cluster_ejection_buffer_size |-> ejection_buffer_size,
     response_fifo |-> <<>>,
     interconn |-> <<>>,
     instr_l1_fills |-> [k \in ClusterCoreIds |-> <<>>],
     ldst_response |-> [k \in ClusterCoreIds |-> <<>>],
     sent |-> 0,
     arrived |-> <<>>,
     delivered |-> <<>>,
     last |-> [head |-> 0, blocked |-> FALSE, removed |-> <<>>, popped |-> <<>>]]

IdleCluster == NewCluster(1)

fetch_unit_response_buffer_full(cl, core_id) == FALSE

\* the load/store unit's response buffer
ldst_unit_response_buffer_full(cl, core_id) ==
    Len(cl.ldst_response[core_id]) >= LdstResponseBufferSize

Delivery(fetch, core_id, unit) ==
    [uid |-> fetch.uid, fetch |-> fetch, core_id |-> core_id, unit |-> unit]

accept_fetch_response(cl, core_id) ==
    [cl EXCEPT !.instr_l1_fills[core_id] = Append(@, Head(cl.response_fifo).uid),
               !.response_fifo = Tail(@),
               !.delivered = Append(@, Delivery(Head(cl.response_fifo), core_id, "fetch")),
               !.last.removed = Append(@, Head(cl.response_fifo).uid)]

accept_ldst_unit_response(cl, core_id) ==
    [cl EXCEPT !.ldst_response[core_id] = Append(@, Head(cl.response_fifo).uid),
               !.response_fifo = Tail(@),
               !.delivered = Append(@, Delivery(Head(cl.response_fifo), core_id, "ldst")),
               !.last.removed = Append(@, Head(cl.response_fifo).uid)]

\* the head of the response FIFO goes to its core if the unit takes it
\* variant: the response is handed to the load/store unit although it is full
DeliverHead_Unchecked(cl) ==
    IF cl.response_fifo = <<>>
    THEN cl
    ELSE IF Head(cl.response_fifo).kind = "INST_ACC_R"
    THEN accept_fetch_response(cl, global_core_id_to_core_id(Head(cl.response_fifo).core_id))
    ELSE accept_ldst_unit_response(cl, global_core_id_to_core_id(Head(cl.response_fifo).core_id))

DeliverHead(cl) ==
    IF cl.response_fifo = <<>>
    THEN cl
    ELSE IF Head(cl.response_fifo).kind = "INST_ACC_R"
    THEN IF fetch_unit_response_buffer_full(cl, global_core_id_to_core_id(Head(cl.response_fifo).core_id))
         THEN cl
         ELSE accept_fetch_response(cl, global_core_id_to_core_id(Head(cl.response_fifo).core_id))
    ELSE IF ~ldst_unit_response_buffer_full(cl, global_core_id_to_core_id(Head(cl.response_fifo).core_id))
    THEN accept_ldst_unit_response(cl, global_core_id_to_core_id(Head(cl.response_fifo).core_id))
    ELSE cl

\* a packet of the interconnect enters the response FIFO unless it is full
\* variant: the FIFO takes a packet up to one past its size
EjectPacket_OnePast(cl) ==
    IF Len(cl.response_fifo) > cl.num_cluster_ejection_buffer_size \/ cl.interconn = <<>>
    THEN cl
    ELSE [cl EXCEPT !.response_fifo = Append(@, Head(cl.interconn)),
                    !.interconn = Tail(@),
                    !.arrived = Append(@, Head(cl.interconn).uid),
                    !.last.popped = Append(@, Head(cl.interconn).uid)]

EjectPacket(cl) ==
    IF Len(cl.response_fifo) >= cl.num_cluster_ejection_buffer_size \/ cl.interconn = <<>>
    THEN cl
    ELSE [cl EXCEPT !.response_fifo = Append(@, Head(cl.interconn)),
                    !.interconn = Tail(@),
                    !.arrived = Append(@, Head(cl.interconn).uid),
                    !.last.popped = Append(@, Head(cl.interconn).uid)]

\* Cluster::interconn_cycle
interconn_cycle(cl) ==
    EjectPacket(DeliverHead(
        [cl EXCEPT !.last = [head |-> IF cl.response_fifo = <<>> THEN 0
                                      ELSE Head(cl.response_fifo).uid,
                             blocked |-> /\ cl.response_fifo # <<>>
                                         /\ Head(cl.response_fifo).kind # "INST_ACC_R"
                                         /\ ldst_unit_response_buffer_full(cl,
                                              global_core_id_to_core_id(Head(cl.response_fifo).core_id)),
                             removed |-> <<>>, popped |-> <<>>]]))

\* ------------------------------------------------------------------------
\* Configurations and inputs
\* ------------------------------------------------------------------------
Configs ==
    [write_policy : {"WRITE_BACK", "WRITE_THROUGH"},
     write_allocate_policy : {"WRITE_ALLOCATE", "NO_WRITE_ALLOCATE"},
     allocate_policy : {"ON_MISS", "ON_FILL"},
     miss_queue_size : 1..MaxMissQueueSize]
    \cup
    [write_policy : {"READ_ONLY"},
     write_allocate_policy : {"NO_WRITE_ALLOCATE"},
     allocate_policy : {"ON_MISS"},
     miss_queue_size : 1..MaxMissQueueSize]

\* the physical address a fetch arrives with: the controller's translation of
\* its address, or one whose chip and sub-partition were rehashed
PhysChoices(addr) ==
    LET pa == to_physical_address(addr)
    IN {pa, [pa EXCEPT !.chip = (@ + 1) % NumChips,
                       !.sub_partition = (@ + 1) % NumChips]}

Sizes(addr) == {n \in 1..AtomSize : (addr % LineSize) + n <= LineSize}

ValidDataFetch(f) ==
    /\ f.data_size \in Sizes(f.addr)
    /\ f.physical_addr \in PhysChoices(f.addr)
    /\ f.is_atomic => f.kind = "GLOBAL_ACC_R"

DataFetchesAt(uid, a) ==
    {MemFetchBuild(uid, k, a, n, at, pa) :
        k \in {"GLOBAL_ACC_R", "GLOBAL_ACC_W"}, n \in Sizes(a),
        at \in BOOLEAN, pa \in PhysChoices(a)}

AllDataFetches(uid) ==
    {f \in UNION {DataFetchesAt(uid, a) : a \in Addrs} : ValidDataFetch(f)}

AllInstFetches(uid) ==
    UNION {{MemFetchBuild(uid, "INST_ACC_R", a, n, FALSE, to_physical_address(a)) :
               n \in Sizes(a)} : a \in Addrs}

\* the accesses the behaviours are built from: one address per line, running to
\* the end of the line, with the controller's physical address
StepAddrs == {b * LineSize + (b % LineSize) : b \in 0..(NumBlocks - 1)}
StepFetch(f) ==
    /\ f.addr \in StepAddrs
    /\ f.data_size = LineSize - (f.addr % LineSize)
    /\ f.physical_addr = to_physical_address(f.addr)

StepDataFetches(uid) == {f \in AllDataFetches(uid) : StepFetch(f)}
StepInstFetches(uid) == {f \in AllInstFetches(uid) : StepFetch(f)}

EmptyCache ==
    [ta |-> [lines |-> [i \in LineIndices |-> InvalidBlock], num_dirty |-> 0],
     mshrs |-> [entries |-> <<>>, ready |-> <<>>],
     miss_queue |-> <<>>,
     pending |-> <<>>,
     stats |-> EmptyBag,
     data_port_occupied_cycles |-> 0,
     fill_port_occupied_cycles |-> 0]

NoRet == [op |-> "new", uid |-> 0, kind |-> "NONE", probe |-> "NONE",
          status |-> "NONE", addr |-> 0, data_size |-> 0,
          before |-> 0, modified_size |-> 0]

Range(q) == {q[i] : i \in 1..Len(q)}
SeqUids(q) == [i \in 1..Len(q) |-> q[i].uid]

Init ==
    /\ cfg \in Configs
    /\ c = EmptyCache
    /\ replies = {}
    /\ time = 0
    /\ next_uid = 1
    /\ panicked = FALSE
    /\ ret = NoRet
    /\ issued = <<>>
    /\ queued = <<>>
    /\ sent = <<>>
    /\ block = NewBlock("mask")
    /\ cluster = IdleCluster
    /\ core = IdleCore

\* the read requests a handler of access f registered for a fill: the access
\* itself, or the atom-sized read-for-allocate built at the store's address
Issue(old, new, f) ==
    [u \in DOMAIN issued \cup (DOMAIN new.pending \ DOMAIN old.pending) |->
        IF u \in DOMAIN issued THEN issued[u]
        ELSE IF u = f.uid THEN [addr |-> f.addr, data_size |-> f.data_size]
        ELSE [addr |-> f.addr, data_size |-> AtomSize]]

\* the uids appended to the miss queue by a handler
Pushed(old, new) == SeqUids(SubSeq(new.miss_queue, Len(old.miss_queue) + 1,
                                   Len(new.miss_queue)))

\* the state after Data::access(f) returned r
Accessed(f, r) ==
    /\ c' = r.c
    /\ panicked' = r.panic
    /\ next_uid' = next_uid + 1 + r.built
    /\ ret' = [op |-> "access", uid |-> f.uid, kind |-> f.kind,
               probe |-> r.probe, status |-> r.status,
               addr |-> f.addr, data_size |-> f.data_size,
               before |-> 0, modified_size |-> 0]
    /\ queued' = queued \o Pushed(c, r.c)
    /\ issued' = Issue(c, r.c, f)
    /\ UNCHANGED <<cfg, replies, time, sent, block, core, cluster>>

Access ==
    /\ ~panicked
    /\ cfg.write_policy # "READ_ONLY"
    /\ next_uid <= MaxFetches
    /\ \E f \in StepDataFetches(next_uid) :
         Accessed(f, DataAccess(c, cfg, f.addr, f, time, next_uid + 1))

AccessReadOnly ==
    /\ ~panicked
    /\ cfg.write_policy = "READ_ONLY"
    /\ next_uid <= MaxFetches
    /\ \E f \in StepInstFetches(next_uid) :
         Accessed(f, ReadOnlyAccess(c, cfg, f.addr, f, time))

\* Base::cycle, once per simulated cycle; a read pushed to the port will be
\* answered by the lower memory level, a write is absorbed there
Cycled(r) ==
    /\ c' = r.c
    /\ replies' = replies \cup {f \in Range(r.pushed) : ~is_write(f)}
    /\ sent' = sent \o SeqUids(r.pushed)
    /\ ret' = [NoRet EXCEPT !.op = "cycle",
                            !.uid = IF r.pushed = <<>> THEN 0 ELSE r.pushed[1].uid]
    /\ time' = time + 1
    /\ UNCHANGED <<cfg, next_uid, panicked, issued, queued, block, core, cluster>>

Cycle ==
    /\ ~panicked
    /\ time < MaxTime
    /\ \E port_full \in BOOLEAN : Cycled(BaseCycle(c, port_full))

\* a response returns from the lower memory level
Filled(f, r) ==
    /\ c' = r.c
    /\ panicked' = r.panic
    /\ replies' = replies \ {f}
    /\ ret' = [NoRet EXCEPT !.op = "fill", !.uid = f.uid,
                            !.addr = r.fetch.addr,
                            !.data_size = r.fetch.data_size]
    /\ UNCHANGED <<cfg, time, next_uid, issued, queued, sent, block, core, cluster>>

FillResponse ==
    /\ ~panicked
    /\ \E f \in replies : Filled(f, Fill(c, cfg, f, time))

\* the owner drains one ready access from the MSHR table
NextAccess ==
    /\ ~panicked
    /\ MshrHasReady(c.mshrs)
    /\ c' = [c EXCEPT !.mshrs = MshrNextAccess(@)]
    /\ ret' = [NoRet EXCEPT !.op = "next_access",
                            !.uid = Head(c.mshrs.entries[Head(c.mshrs.ready)].list).uid]
    /\ UNCHANGED <<cfg, replies, time, next_uid, panicked, issued, queued, sent, block, core, cluster>>

Next ==
    \/ Access
    \/ AccessReadOnly
    \/ Cycle
    \/ FillResponse
    \/ NextAccess

Spec == Init /\ [][Next]_vars

\* ------------------------------------------------------------------------
\* The bandwidth manager, driven through its own interface
\* ------------------------------------------------------------------------
AccessStatuses == {"HIT", "HIT_RESERVED", "MISS", "SECTOR_MISS", "RESERVATION_FAIL"}

\* the events an access may hand to use_data_port: none, a read request, and a
\* writeback event as Data::read_miss (no evicted block) or
\* write_miss_write_allocate_naive (the evicted block) builds it
WritebackEventChoices ==
    {Event("WRITE_BACK_REQUEST_SENT", NoEvicted)}
    \cup {Event("WRITE_BACK_REQUEST_SENT", [block_addr |-> 0, modified_size |-> n]) :
              n \in 1..LineSize}

EventChoices ==
    {<<>>, <<Event("READ_REQUEST_SENT", NoEvicted)>>}
    \cup {<<Event("WRITE_REQUEST_SENT", NoEvicted), e>> : e \in WritebackEventChoices}

SentModifiedSize(events) ==
    IF WritebackEvents(events) = {} THEN 0
    ELSE events[MinIndex(WritebackEvents(events))].evicted_block.modified_size

BwDataPortUsed(data_size, access_status, events, occ) ==
    /\ c' = [c EXCEPT !.data_port_occupied_cycles = IF occ = NoIndex THEN @ ELSE occ]
    /\ panicked' = (occ = NoIndex)
    /\ ret' = [NoRet EXCEPT !.op = "use_data_port", !.status = access_status,
                            !.data_size = data_size,
                            !.kind = IF WritebackEvents(events) = {} THEN "NONE"
                                     ELSE "WRITE_BACK_REQUEST_SENT",
                            !.before = c.data_port_occupied_cycles,
                            !.modified_size = SentModifiedSize(events)]
    /\ UNCHANGED <<cfg, replies, time, next_uid, issued, queued, sent, block, core, cluster>>

BwUseDataPort ==
    /\ ~panicked
    /\ c.data_port_occupied_cycles < MaxOccupied
    /\ \E data_size \in 1..AtomSize, access_status \in AccessStatuses,
          events \in EventChoices :
         BwDataPortUsed(data_size, access_status, events,
                        use_data_port(c.data_port_occupied_cycles, data_size,
                                      access_status, events))

BwUseFillPort ==
    /\ ~panicked
    /\ c.fill_port_occupied_cycles < MaxOccupied
    /\ c' = [c EXCEPT !.fill_port_occupied_cycles = use_fill_port(@)]
    /\ ret' = [NoRet EXCEPT !.op = "use_fill_port",
                            !.before = c.fill_port_occupied_cycles]
    /\ UNCHANGED <<cfg, replies, time, next_uid, panicked, issued, queued, sent, block, core, cluster>>

BwReplenish ==
    /\ ~panicked
    /\ c' = replenish_port_bandwidth(c)
    /\ ret' = [NoRet EXCEPT !.op = "replenish",
                            !.before = c.data_port_occupied_cycles,
                            !.modified_size = c.fill_port_occupied_cycles]
    /\ UNCHANGED <<cfg, replies, time, next_uid, panicked, issued, queued, sent, block, core, cluster>>

NextBandwidth ==
    \/ BwUseDataPort
    \/ BwUseFillPort
    \/ BwReplenish

SpecBandwidth == Init /\ [][NextBandwidth]_vars

\* ------------------------------------------------------------------------
\* Write hits on one sector block
\* ------------------------------------------------------------------------
InitReadable ==
    /\ cfg = [write_policy |-> "WRITE_BACK", write_allocate_policy |-> "WRITE_ALLOCATE",
              allocate_policy |-> "ON_MISS", miss_queue_size |-> 1]
    /\ c = EmptyCache
    /\ replies = {}
    /\ time = 0
    /\ next_uid = 1
    /\ panicked = FALSE
    /\ ret = NoRet
    /\ issued = <<>>
    /\ queued = <<>>
    /\ sent = <<>>
    /\ block \in InitialBlocks
    /\ cluster = IdleCluster
    /\ core = IdleCore

BlockWriteHitStep ==
    /\ \E st \in StoreMasks :
          block' = BlockWriteHit(block, st.sector_mask, st.byte_mask)
    /\ ret' = [NoRet EXCEPT !.op = "write_hit_write_back", !.status = "HIT"]
    /\ UNCHANGED <<cfg, c, replies, time, next_uid, panicked, issued, queued, sent, core, cluster>>

NextReadable == BlockWriteHitStep

SpecReadable == InitReadable /\ [][NextReadable]_vars

\* ------------------------------------------------------------------------
\* One core running the blocks of one kernel
\* ------------------------------------------------------------------------
InitCore ==
    /\ cfg = [write_policy |-> "READ_ONLY", write_allocate_policy |-> "NO_WRITE_ALLOCATE",
              allocate_policy |-> "ON_MISS", miss_queue_size |-> 1]
    /\ c = EmptyCache
    /\ replies = {}
    /\ time = 0
    /\ next_uid = 1
    /\ panicked = FALSE
    /\ ret = NoRet
    /\ issued = <<>>
    /\ queued = <<>>
    /\ sent = <<>>
    /\ block = NewBlock("mask")
    /\ cluster = IdleCluster
    /\ \E config \in CoreConfigs, kernel \in Kernels : core = NewCore(config, kernel)

\* Cluster::issue_block_to_core, for the one core of the cluster
CoreIssueBlock ==
    /\ ~core.panic
    /\ ~no_more_blocks_to_run(core.kernel)
    /\ can_issue_block(core, core.kernel)
    /\ core' = issue_block(BindKernel(core, core.kernel, TRUE), core.kernel)
    /\ ret' = [NoRet EXCEPT !.op = "issue_block"]
    /\ UNCHANGED <<cfg, c, replies, time, next_uid, panicked, issued, queued, sent, block, cluster>>

CoreCycle ==
    /\ ~core.panic
    /\ \E answers \in CacheAnswers(core.config) : core' = core_cycle(core, answers)
    /\ ret' = [NoRet EXCEPT !.op = "core_cycle"]
    /\ UNCHANGED <<cfg, c, replies, time, next_uid, panicked, issued, queued, sent, block, cluster>>

NextCore == CoreIssueBlock \/ CoreCycle

SpecCore == InitCore /\ [][NextCore]_vars

\* the core with its fetch steps logged
InitFetch ==
    /\ cfg = [write_policy |-> "READ_ONLY", write_allocate_policy |-> "NO_WRITE_ALLOCATE",
              allocate_policy |-> "ON_MISS", miss_queue_size |-> 1]
    /\ c = EmptyCache
    /\ replies = {}
    /\ time = 0
    /\ next_uid = 1
    /\ panicked = FALSE
    /\ ret = NoRet
    /\ issued = <<>>
    /\ queued = <<>>
    /\ sent = <<>>
    /\ block = NewBlock("mask")
    /\ cluster = IdleCluster
    /\ \E config \in {cf \in CoreConfigs : cf.reg_file_port_throughput = 1}, kernel \in Kernels :
          core = [NewCore(config, kernel) EXCEPT !.log_fetches = TRUE]

SpecFetch == InitFetch /\ [][NextCore]_vars

TypeOK ==
    /\ cfg \in Configs
    /\ time \in 0..MaxTime
    /\ next_uid \in 1..(MaxFetches + 3)
    /\ panicked \in BOOLEAN
    /\ \A i \in LineIndices :
          /\ c.ta.lines[i].status \in {"INVALID", "RESERVED", "VALID", "MODIFIED"}
          /\ c.ta.lines[i].block_addr \in Addrs
          /\ c.ta.lines[i].last_access_time \in 0..MaxTime
    /\ DOMAIN c.pending \subseteq Uids
    /\ \A f \in replies : ~is_write(f)

\* ------------------------------------------------------------------------
\* Properties
\* ------------------------------------------------------------------------
Count(stats, kind, stat) == CopiesIn(<<kind, stat>>, stats)

IsDataCache == cfg.write_policy # "READ_ONLY"

\* the accesses a data cache may receive in the current state
Loads == {f \in AllDataFetches(next_uid) : ~is_write(f)}
Stores == {f \in AllDataFetches(next_uid) : is_write(f)}

ProbeOf(f) == TagProbe(c.ta.lines, block_addr(f.addr))
ProbeIsMiss(f) == ProbeOf(f).index # NoIndex /\ ProbeOf(f).status # "HIT"

AccessOf(f) == DataAccess(c, cfg, f.addr, f, time, next_uid + 1)

\* the fetches a handler appended to the miss queue
PushedFetches(old, new) ==
    SubSeq(new.miss_queue, Len(old.miss_queue) + 1, Len(new.miss_queue))

MshrCanTake(f) == ~MshrFull(c.mshrs, mshr_addr(f.addr))

\* C1 (as stated): a read whose probe is a miss is rejected with
\* RESERVATION_FAIL, counted as MISS_QUEUE_FULL, exactly when the miss queue has
\* no room for one more fetch, and is accepted (MISS) otherwise when the MSHR
\* can take it.
C1_RejectedOnlyWhenNoRoomForOne ==
    IsDataCache =>
      \A f \in Loads :
        ProbeIsMiss(f) =>
          LET r == AccessOf(f)
              room == Len(c.miss_queue) + 1 <= cfg.miss_queue_size
              counted == Count(r.c.stats, f.kind, "MISS_QUEUE_FULL")
                           > Count(c.stats, f.kind, "MISS_QUEUE_FULL")
          IN /\ counted <=> ~room
             /\ (room /\ MshrCanTake(f)) => r.status = "MISS"

\* C1 (amended): a read whose probe is a miss is rejected with RESERVATION_FAIL,
\* counted as MISS_QUEUE_FULL, exactly when the miss queue would not stay below
\* miss_queue_size after one more fetch (len + 1 >= miss_queue_size), and is
\* accepted (MISS) otherwise when the MSHR can take it; with miss_queue_size = 2
\* and an empty queue the first of two distinct-line loads returns MISS and the
\* second RESERVATION_FAIL, and with miss_queue_size = 1 every read miss is
\* rejected.
C1_RejectedUnlessRoomForTwo ==
    IsDataCache =>
      \A f \in Loads :
        ProbeIsMiss(f) =>
          LET r == AccessOf(f)
              room == Len(c.miss_queue) + 1 < cfg.miss_queue_size
              counted == Count(r.c.stats, f.kind, "MISS_QUEUE_FULL")
                           > Count(c.stats, f.kind, "MISS_QUEUE_FULL")
          IN /\ counted <=> ~room
             /\ counted => r.status = "RESERVATION_FAIL"
                           /\ r.c.miss_queue = c.miss_queue
             /\ (room /\ MshrCanTake(f)) => r.status = "MISS"
             /\ cfg.miss_queue_size = 1 => r.status = "RESERVATION_FAIL"
             /\ (cfg.miss_queue_size = 2 /\ c.miss_queue = <<>> /\ MshrCanTake(f)) =>
                  /\ r.status = "MISS"
                  /\ \A g \in Loads :
                       (block_addr(g.addr) # block_addr(f.addr)
                        /\ TagProbe(r.c.ta.lines, block_addr(g.addr)).status # "HIT")
                       => DataAccess(r.c, cfg, g.addr, g, time,
                                     next_uid + 2).status = "RESERVATION_FAIL"

\* C1 witness: a load that missed in the tag array was just rejected although
\* the miss queue still had one free slot
C1_Witness ==
    /\ ret.op = "access" /\ ret.kind = "GLOBAL_ACC_R"
    /\ ret.probe \in {"MISS", "HIT_RESERVED"}
    /\ ret.status = "RESERVATION_FAIL"
    /\ Count(c.stats, "GLOBAL_ACC_R", "MISS_QUEUE_FULL") > 0
    /\ Len(c.miss_queue) >= 1
    /\ Len(c.miss_queue) + 1 = cfg.miss_queue_size

\* C2: the miss queue never holds more than miss_queue_size fetches
C2_MissQueueBounded == Len(c.miss_queue) <= cfg.miss_queue_size

\* C2 witness: a store just filled the miss queue to the brim with its write,
\* its write-allocate read and a writeback
C2_Witness ==
    /\ ret.op = "access" /\ ret.kind = "GLOBAL_ACC_W" /\ ret.status = "MISS"
    /\ Len(c.miss_queue) = cfg.miss_queue_size
    /\ \E i \in 1..Len(c.miss_queue) : c.miss_queue[i].kind = "L1_WRBK_ACC"
    /\ \E i \in 1..Len(c.miss_queue) : c.miss_queue[i].kind = "L1_WR_ALLOC_R"

\* C3: a cache cycle moves at most one fetch to the port, the head of the miss
\* queue, and only if the port is not full; a full port leaves the queue as it
\* is; the fetches reach the port in the order they entered the miss queue
C3_CycleIsFifo ==
    /\ sent \o SeqUids(c.miss_queue) = queued
    /\ \A port_full \in BOOLEAN :
         LET r == BaseCycle(c, port_full)
         IN /\ Len(r.pushed) <= 1
            /\ r.pushed \o r.c.miss_queue = c.miss_queue
            /\ port_full => r.pushed = <<>>
            /\ (~port_full /\ c.miss_queue # <<>>) => r.pushed = <<Head(c.miss_queue)>>

\* C3 witness: a cycle has just pushed the second fetch to the port while a
\* later one is still queued
C3_Witness ==
    /\ ret.op = "cycle" /\ ret.uid # 0
    /\ Len(sent) >= 2
    /\ c.miss_queue # <<>>

\* the read requests for MSHR address a that are on their way to or from the
\* lower memory level
InFlightReads(a) ==
    {f \in Range(c.miss_queue) \cup replies : ~is_write(f) /\ f.addr = a}

ListLen(m, a) == IF a \in DOMAIN m.entries THEN Len(m.entries[a].list) ELSE 0

MshrAddrs == {mshr_addr(a) : a \in Addrs}

\* C4: while a read miss is outstanding, a further read miss to the same MSHR
\* address adds no fetch to the miss queue, and returns MISS when it is merged;
\* an MSHR entry has exactly one read request in flight until it is filled
C4_MergedMissesPushOnce ==
    /\ \A a \in MshrAddrs :
         Cardinality(InFlightReads(a)) =
            IF a \in DOMAIN c.mshrs.entries /\ a \notin Range(c.mshrs.ready)
            THEN 1 ELSE 0
    /\ \A f \in (IF IsDataCache THEN Loads ELSE AllInstFetches(next_uid)) :
         LET a == mshr_addr(f.addr)
             r == IF IsDataCache THEN AccessOf(f)
                  ELSE ReadOnlyAccess(c, cfg, f.addr, f, time)
             merged == ListLen(r.c.mshrs, a) > ListLen(c.mshrs, a)
         IN (MshrProbe(c.mshrs, a) /\ ProbeOf(f).status # "HIT") =>
              /\ r.c.miss_queue = c.miss_queue
              /\ merged => r.status = "MISS"
              /\ (ProbeOf(f).index # NoIndex /\ ~MshrFull(c.mshrs, a)
                  /\ (IF IsDataCache THEN Len(c.miss_queue) + 1 < cfg.miss_queue_size
                      ELSE Len(c.miss_queue) < cfg.miss_queue_size)) => merged

\* C4 witness: a second load to a line with an outstanding miss was merged:
\* two accesses wait in one MSHR entry and one fetch was ever queued
C4_Witness ==
    /\ ret.op = "access" /\ ret.status = "MISS" /\ ret.probe = "HIT_RESERVED"
    /\ Len(queued) = 1
    /\ \E a \in DOMAIN c.mshrs.entries :
         /\ Len(c.mshrs.entries[a].list) = 2
         /\ a \notin Range(c.mshrs.ready)

\* what the tag array would evict for an access to f's line
EvictionOf(f) == TagAccess(c.ta, cfg, block_addr(f.addr), time)
EvictsModified(f) == EvictionOf(f).writeback

IsWriteback(g) == g.kind = "L1_WRBK_ACC"

\* C5: a data-cache read miss that evicts a MODIFIED block enqueues, after the
\* read fetch, exactly one writeback fetch for the evicted block (a write of
\* the modified size at the evicted block address) unless the write policy is
\* WRITE_THROUGH, and no writeback when no MODIFIED block was evicted
C5_ReadMissWritesBackVictim ==
    IsDataCache =>
      \A f \in Loads :
        LET r == AccessOf(f)
            pushed == PushedFetches(c, r.c)
            ev == EvictionOf(f).evicted
        IN (ProbeIsMiss(f) /\ r.status = "MISS") =>
             IF EvictsModified(f) /\ cfg.write_policy # "WRITE_THROUGH"
             THEN /\ Len(pushed) = 2
                  /\ ~is_write(pushed[1])
                  /\ IsWriteback(pushed[2])
                  /\ pushed[2].addr = ev.block_addr
                  /\ pushed[2].data_size = ev.modified_size
             ELSE \A i \in 1..Len(pushed) : ~IsWriteback(pushed[i])

StoreMissOverModified(f) ==
    /\ cfg.write_policy = "WRITE_BACK"
    /\ cfg.write_allocate_policy = "WRITE_ALLOCATE"
    /\ ProbeOf(f).status = "MISS"
    /\ is_modified(c.ta.lines[ProbeOf(f).index])
    /\ ~MshrProbe(c.mshrs, mshr_addr(f.addr))
    /\ ~WaMustFail(c, cfg, f)

\* C7 (as stated): such a store returns MISS and enqueues exactly three
\* fetches in this order: the original write, a read-for-allocate of atom_size
\* at the store's address, and a writeback for the evicted line
C7_StoreMissEnqueuesThree ==
    \A f \in Stores :
      StoreMissOverModified(f) =>
        LET r == AccessOf(f)
            pushed == PushedFetches(c, r.c)
        IN /\ r.status = "MISS"
           /\ Len(pushed) = 3
           /\ pushed[1] = f
           /\ pushed[2].kind = "L1_WR_ALLOC_R"
           /\ pushed[2].data_size = AtomSize
           /\ pushed[2].addr = f.addr
           /\ IsWriteback(pushed[3])
           /\ pushed[3].addr = c.ta.lines[ProbeOf(f).index].block_addr

\* C7 (amended): such a store returns MISS and first enqueues the original
\* write and then a read-for-allocate of atom_size at the MSHR (atom-aligned)
\* address of the store's address; when lines are allocated ON_MISS a writeback
\* for the evicted line follows as the third and last fetch, and when they are
\* allocated ON_FILL nothing is evicted by the access and no writeback is
\* enqueued
C7_StoreMissEnqueuesThreeOnMiss ==
    \A f \in Stores :
      StoreMissOverModified(f) =>
        LET r == AccessOf(f)
            pushed == PushedFetches(c, r.c)
        IN /\ r.status = "MISS"
           /\ ~r.panic
           /\ Len(pushed) = IF cfg.allocate_policy = "ON_MISS" THEN 3 ELSE 2
           /\ pushed[1] = f
           /\ pushed[2].kind = "L1_WR_ALLOC_R"
           /\ pushed[2].data_size = AtomSize
           /\ pushed[2].addr = mshr_addr(f.addr)
           /\ cfg.allocate_policy = "ON_MISS" =>
                /\ IsWriteback(pushed[3])
                /\ pushed[3].addr = c.ta.lines[ProbeOf(f).index].block_addr
                /\ pushed[3].data_size = LineSize

\* C7 witness: a store has just missed and left its write, the read-for-allocate
\* and the writeback of the evicted line in the miss queue
C7_Witness ==
    /\ ret.op = "access" /\ ret.kind = "GLOBAL_ACC_W" /\ ret.status = "MISS"
    /\ ret.probe = "MISS"
    /\ cfg.write_policy = "WRITE_BACK" /\ cfg.allocate_policy = "ON_MISS"
    /\ Len(c.miss_queue) = 3
    /\ c.miss_queue[1].uid = ret.uid
    /\ c.miss_queue[2].kind = "L1_WR_ALLOC_R"
    /\ c.miss_queue[2].addr = mshr_addr(ret.addr)
    /\ c.miss_queue[2].addr # ret.addr
    /\ IsWriteback(c.miss_queue[3])
    /\ c.miss_queue[3].addr # block_addr(ret.addr)

\* the stores that reach the write-allocate miss handler
WriteAllocateMisses ==
    {f \in Stores : /\ cfg.write_allocate_policy = "WRITE_ALLOCATE"
                    /\ ProbeOf(f).status # "HIT"
                    /\ ProbeOf(f).index # NoIndex}

FailureReasons == {"MISS_QUEUE_FULL", "MSHR_MERGE_ENTRY_FAIL", "MSHR_ENTRY_FAIL",
                   "LINE_ALLOC_FAIL"}

\* C8: a write-allocate store miss that cannot be served fails with exactly one
\* reason: MISS_QUEUE_FULL if the miss queue cannot fit 2 more fetches, else
\* MSHR_MERGE_ENTRY_FAIL if the MSHR has a full entry for the line, else
\* MSHR_ENTRY_FAIL if there is no entry and the table is full; the 'bad reason'
\* panic is never reached
C8_WriteAllocateFailureReason ==
    /\ IsDataCache =>
         \A f \in WriteAllocateMisses :
           LET r == AccessOf(f)
               a == mshr_addr(f.addr)
               expected ==
                   IF Len(c.miss_queue) + 2 >= cfg.miss_queue_size
                   THEN "MISS_QUEUE_FULL"
                   ELSE IF MshrProbe(c.mshrs, a) /\ MshrFull(c.mshrs, a)
                   THEN "MSHR_MERGE_ENTRY_FAIL"
                   ELSE IF ~MshrProbe(c.mshrs, a) /\ MshrFull(c.mshrs, a)
                   THEN "MSHR_ENTRY_FAIL"
                   ELSE "NONE"
           IN /\ ~r.panic
              /\ r.status \in {"MISS", "RESERVATION_FAIL"}
              /\ (r.status = "RESERVATION_FAIL") <=> (expected # "NONE")
              /\ \A reason \in FailureReasons :
                   Count(r.c.stats, f.kind, reason) =
                     Count(c.stats, f.kind, reason)
                       + (IF reason = expected THEN 1 ELSE 0)

\* C8 witness: a write-allocate store miss has just been refused because the
\* MSHR table had no free entry while the miss queue had room for two fetches
C8_Witness ==
    /\ ret.op = "access" /\ ret.kind = "GLOBAL_ACC_W"
    /\ ret.status = "RESERVATION_FAIL"
    /\ Count(c.stats, "GLOBAL_ACC_W", "MSHR_ENTRY_FAIL") = 1
    /\ Len(c.miss_queue) + 2 < cfg.miss_queue_size

\* C9: num_dirty equals the number of MODIFIED blocks in every reachable state
C9_NumDirtyCountsModified ==
    c.ta.num_dirty =
      Cardinality({i \in LineIndices : is_modified(c.ta.lines[i])})

ReadUids(S) == {f.uid : f \in {g \in S : ~is_write(g)}}

\* C10: a read request that allocated an MSHR entry has a pending record from
\* the moment it enters the miss queue until fill is called for it:
\* waiting_for_fill is false before the access, true while the request is
\* queued or at the lower level, false after the fill; and fill restores the
\* data size and the address the fetch had when it was issued
C10_PendingUntilFill ==
    /\ DOMAIN c.pending = ReadUids(Range(c.miss_queue) \cup replies)
    /\ \A u \in next_uid..(MaxFetches + 3) : ~waiting_for_fill(c, u)
    /\ \A f \in (IF IsDataCache THEN AllDataFetches(next_uid)
                 ELSE AllInstFetches(next_uid)) :
         LET r == IF IsDataCache THEN AccessOf(f)
                  ELSE ReadOnlyAccess(c, cfg, f.addr, f, time)
         IN \A g \in Range(PushedFetches(c, r.c)) :
              ~is_write(g) =>
                /\ g.data_size = AtomSize /\ g.addr = mshr_addr(f.addr)
                /\ waiting_for_fill(r.c, g.uid)
                /\ r.c.pending[g.uid].addr = f.addr
                /\ r.c.pending[g.uid].data_size =
                     IF g.uid = f.uid THEN f.data_size ELSE AtomSize
    /\ \A f \in replies :
         LET r == Fill(c, cfg, f, time)
         IN /\ waiting_for_fill(c, f.uid)
            /\ ~waiting_for_fill(r.c, f.uid)
            /\ r.fetch.addr = issued[f.uid].addr
            /\ r.fetch.data_size = issued[f.uid].data_size
            /\ mshr_addr(f.addr) \in Range(r.c.mshrs.ready)

\* C10 witness: fill has just been called for a request that was issued for an
\* address that is not atom-aligned, and has restored that address
C10_Witness ==
    /\ ret.op = "fill"
    /\ ret.uid \in DOMAIN issued
    /\ ret.addr = issued[ret.uid].addr
    /\ ret.addr # mshr_addr(ret.addr)
    /\ ret.data_size = issued[ret.uid].data_size
    /\ ret.data_size # AtomSize
    /\ ~waiting_for_fill(c, ret.uid)

\* the charge C11 states for an access with status, size and writeback as
\* recorded in r
C11Charge(r) ==
    CASE r.status = "HIT" -> CeilDiv(r.data_size, DataPortWidth)
      [] r.status \in {"HIT_RESERVED", "MISS"}
         /\ r.kind = "WRITE_BACK_REQUEST_SENT" ->
           CeilDiv(r.modified_size, DataPortWidth)
      [] OTHER -> 0

\* C11: use_data_port adds ceil(size / port_width) cycles on HIT, adds
\* ceil(modified_size / port_width) on HIT_RESERVED or MISS when the access
\* sent a writeback, whichever path built the writeback event, and adds
\* nothing on SECTOR_MISS or RESERVATION_FAIL
C11_DataPortCharge ==
    ret.op = "use_data_port" =>
      /\ ~panicked
      /\ c.data_port_occupied_cycles = ret.before + C11Charge(ret)

\* C12: a fill charges the fill port atom_size / data_port_width cycles, a
\* cache cycle decrements both port counters by one, never below zero, and for
\* the base, the read-only and the L2 data cache has_free_fill_port is true
\* exactly when the fill-port counter is 0 and has_free_data_port exactly when
\* the data-port counter is 0
C12_PortsFreeIffCounterZero ==
    /\ ret.op = "use_fill_port" =>
         c.fill_port_occupied_cycles = ret.before + (AtomSize \div DataPortWidth)
    /\ ret.op = "replenish" =>
         /\ c.data_port_occupied_cycles = IF ret.before = 0 THEN 0 ELSE ret.before - 1
         /\ c.fill_port_occupied_cycles =
              IF ret.modified_size = 0 THEN 0 ELSE ret.modified_size - 1
    /\ c.data_port_occupied_cycles >= 0 /\ c.fill_port_occupied_cycles >= 0
    /\ has_free_fill_port(c) <=> (c.fill_port_occupied_cycles = 0)
    /\ has_free_data_port(c) <=> (c.data_port_occupied_cycles = 0)
    /\ ReadOnlyHasFreeDataPort(c) <=> (c.data_port_occupied_cycles = 0)
    /\ L2HasFreeDataPort(c) <=> (c.data_port_occupied_cycles = 0)
    /\ ReadOnlyHasFreeFillPort(c) <=> (c.fill_port_occupied_cycles = 0)
    /\ L2HasFreeFillPort(c) <=> (c.fill_port_occupied_cycles = 0)

\* the statuses that are counted as AccessStat::Status
StatusNames == AccessStatuses \cup {"MSHR_HIT"}

\* number of statistics <<kind, stat>> for stat, over all access kinds
StatCount(stats, stat) ==
    Count(stats, "GLOBAL_ACC_R", stat) + Count(stats, "GLOBAL_ACC_W", stat)
    + Count(stats, "INST_ACC_R", stat) + Count(stats, "L1_WR_ALLOC_R", stat)
    + Count(stats, "L1_WRBK_ACC", stat)

\* the statistic C13 states for a probe and a final status
C13Stat(probe_status, access_status) ==
    IF probe_status = "HIT_RESERVED" /\ access_status # "RESERVATION_FAIL"
    THEN "HIT_RESERVED"
    ELSE IF probe_status = "SECTOR_MISS" /\ access_status # "MISS"
    THEN "SECTOR_MISS"
    ELSE access_status

\* the access was merged into an existing MSHR entry
MergedInto(old, new, f) ==
    ListLen(new.mshrs, mshr_addr(f.addr)) > ListLen(old.mshrs, mshr_addr(f.addr))
    /\ ListLen(old.mshrs, mshr_addr(f.addr)) > 0

\* C13 (as stated): every data-cache access records exactly one status
\* statistic, chosen from the probe status and the final status as C13Stat
C13_ExactlyOneStatusStat ==
    /\ \A ps \in AccessStatuses, st \in AccessStatuses :
         StatStatus(ps, st) = C13Stat(ps, st)
    /\ IsDataCache =>
         \A f \in AllDataFetches(next_uid) :
           LET r == AccessOf(f)
           IN ~r.panic =>
                \A s \in StatusNames :
                  StatCount(r.c.stats, s) =
                    StatCount(c.stats, s)
                      + (IF s = C13Stat(ProbeOf(f).status, r.status) THEN 1 ELSE 0)

\* C13 (amended): every data-cache access that returns has exactly one status
\* statistic recorded by Data::access, chosen as C13Stat; in addition
\* send_read_request records the status statistic MSHR_HIT when the read (or
\* the read-for-allocate of a store) is merged into an existing MSHR entry
C13_OneStatusStatPlusMshrHit ==
    /\ \A ps \in AccessStatuses, st \in AccessStatuses :
         StatStatus(ps, st) = C13Stat(ps, st)
    /\ IsDataCache =>
         \A f \in AllDataFetches(next_uid) :
           LET r == AccessOf(f)
           IN ~r.panic =>
                \A s \in StatusNames :
                  StatCount(r.c.stats, s) =
                    StatCount(c.stats, s)
                      + (IF s = C13Stat(ProbeOf(f).status, r.status) THEN 1 ELSE 0)
                      + (IF s = "MSHR_HIT" /\ MergedInto(c, r.c, f) THEN 1 ELSE 0)

\* C13 witness: a load whose probe was HIT_RESERVED was merged and returned
\* MISS; it is counted as HIT_RESERVED and as MSHR_HIT, not as MISS
C13_Witness ==
    /\ ret.op = "access" /\ ret.probe = "HIT_RESERVED" /\ ret.status = "MISS"
    /\ ret.uid = 2
    /\ StatCount(c.stats, "HIT_RESERVED") = 1
    /\ StatCount(c.stats, "MSHR_HIT") = 1
    /\ StatCount(c.stats, "MISS") = 1

\* C14: after a write-back write hit, a sector is readable only if every byte
\* of it is dirty or it was readable before the store; in particular a sector
\* of the store's mask that is only partly written stays unreadable, also when
\* another sector of the same store is fully written
C14_ReadableOnlyIfFullyDirty ==
    \A st \in StoreMasks :
      LET after == BlockWriteHit(block, st.sector_mask, st.byte_mask)
      IN \A i \in Sectors :
           after.readable[i] =>
             \/ block.readable[i]
             \/ \A k \in SectorBytes(i) : after.dirty_byte_mask[k]

\* the stores that miss under NO_WRITE_ALLOCATE
NoWriteAllocateMisses ==
    IF IsDataCache /\ cfg.write_allocate_policy = "NO_WRITE_ALLOCATE"
    THEN {f \in Stores : ProbeOf(f).status # "HIT"}
    ELSE {}

\* C15: under NO_WRITE_ALLOCATE a store that misses enqueues exactly one fetch,
\* the write itself, and returns MISS, allocating neither a line nor an MSHR
\* entry; if the miss queue is full it returns RESERVATION_FAIL, counts
\* MISS_QUEUE_FULL and enqueues nothing
C15_NoWriteAllocateMiss ==
    \A f \in NoWriteAllocateMisses :
      LET r == AccessOf(f)
      IN /\ ~r.panic
         /\ r.c.ta = c.ta
         /\ r.c.mshrs = c.mshrs
         /\ r.c.pending = c.pending
         /\ IF Len(c.miss_queue) >= cfg.miss_queue_size
            THEN /\ r.status = "RESERVATION_FAIL"
                 /\ r.c.miss_queue = c.miss_queue
                 /\ Count(r.c.stats, f.kind, "MISS_QUEUE_FULL")
                      = Count(c.stats, f.kind, "MISS_QUEUE_FULL") + 1
            ELSE /\ r.status = "MISS"
                 /\ Len(PushedFetches(c, r.c)) = 1
                 /\ PushedFetches(c, r.c)[1].uid = f.uid
                 /\ is_write(PushedFetches(c, r.c)[1])
                 /\ Count(r.c.stats, f.kind, "MISS_QUEUE_FULL")
                      = Count(c.stats, f.kind, "MISS_QUEUE_FULL")

\* C15 witness: a store missed under NO_WRITE_ALLOCATE while a line was
\* reserved for a load; the write is the last fetch of the miss queue and the
\* tag array holds no line for it
C15_Witness ==
    /\ cfg.write_allocate_policy = "NO_WRITE_ALLOCATE" /\ IsDataCache
    /\ ret.op = "access" /\ ret.kind \in WriteKinds /\ ret.status = "MISS"
    /\ Len(c.miss_queue) >= 1
    /\ c.miss_queue[Len(c.miss_queue)].uid = ret.uid
    /\ \A i \in LineIndices : c.ta.lines[i].status \in {"INVALID", "RESERVED"}
    /\ DOMAIN c.pending # {}

\* the write policies whose store hit writes through to the lower level; the
\* handlers other than write_hit do not read the write policy, so the states
\* of a WRITE_THROUGH cache are the states of each of them
WriteThroughPolicies == {"WRITE_THROUGH", "WRITE_EVICT", "LOCAL_WB_GLOBAL_WT"}

\* C16: a store hit under WRITE_THROUGH, WRITE_EVICT or LOCAL_WB_GLOBAL_WT is
\* served: the access returns a status and the write is emitted to the lower
\* level (enqueued in the miss queue)
C16_WriteThroughHitServed ==
    cfg.write_policy = "WRITE_THROUGH" =>
      \A wp \in WriteThroughPolicies :
        \A f \in {g \in Stores : ProbeOf(g).status = "HIT"} :
          LET r == DataAccess(c, [cfg EXCEPT !.write_policy = wp], f.addr, f,
                              time, next_uid + 1)
          IN /\ ~r.panic
             /\ r.status \in AccessStatuses
             /\ r.status # "RESERVATION_FAIL" =>
                  \E i \in DOMAIN PushedFetches(c, r.c) :
                    PushedFetches(c, r.c)[i].uid = f.uid

\* the stages of one cycle of an active core, in order
ExpectedStages(config) ==
    <<"writeback", "execute">>
    \o [i \in 1..config.reg_file_port_throughput |-> "operand_collector"]
    \o <<"issue">>
    \o [i \in 1..(2 * config.inst_fetch_throughput) |->
          IF i % 2 = 1 THEN "decode" ELSE "fetch"]

\* C17: in a cycle of an active core the stages run in the order writeback,
\* execute, operand collector times reg_file_port_throughput, issue, then
\* (decode, fetch) times inst_fetch_throughput; a core with no active block and
\* no uncompleted thread runs none of them and its state does not change
C17_StageOrder ==
    [][ret'.op = "core_cycle" =>
         IF core.num_active_blocks = 0 /\ core.num_active_threads = 0
         THEN core' = core
         ELSE core'.stages = ExpectedStages(core.config)]_vars

\* C17 witness: an active core with both throughputs 2 ran a cycle in which a
\* result reached EX_WB and an instruction was issued behind it
C17_Witness ==
    /\ ret.op = "core_cycle"
    /\ core.config.reg_file_port_throughput = 2
    /\ core.config.inst_fetch_throughput = 2
    /\ Len(core.stages) = 9
    /\ core.stages[3] = "operand_collector" /\ core.stages[4] = "operand_collector"
    /\ core.stages[5] = "issue" /\ core.stages[9] = "fetch"
    /\ core.pipeline_reg["EX_WB"] # NoInstr
    /\ core.pipeline_reg["ID_OC"] # NoInstr

\* the hardware threads of the block in slot b
ThreadRange(b) ==
    {t \in Tids : /\ t >= b * threads_per_block_padded(core.kernel)
                  /\ t < b * threads_per_block_padded(core.kernel)
                         + core.kernel.threads_per_block}

ActiveThreads(b) == {t \in ThreadRange(b) : core.thread_state[t] = "ACTIVE"}

\* the threads of block b reclaimed in the last cycle
ReclaimedThreads(b, w) ==
    IF \E r \in core.reclaimed : r.block_hw_id = b /\ r.warp_id = w
    THEN (CHOOSE r \in core.reclaimed : r.block_hw_id = b /\ r.warp_id = w).threads
    ELSE 0

\* the status of block b before the first reclaim of the last cycle
StatusBeforeReclaim(b) ==
    (CHOOSE r \in core.reclaimed :
        /\ r.block_hw_id = b
        /\ \A q \in core.reclaimed :
              q.block_hw_id = b => q.block_status <= r.block_status).block_status

\* C18: block_status[b] is the number of threads of block b that are still
\* active; a warp is reclaimed only when it is hardware-done, has no pending
\* register write and has not exited before; each reclaimed active thread
\* decrements block_status[b] by one; and in the step in which block_status[b]
\* reaches 0 the barrier of b is deallocated and num_active_blocks decremented
C18_BlockStatusCountsActiveThreads ==
    /\ ~core.panic
    /\ \A b \in BlockSlots : core.block_status[b] = Cardinality(ActiveThreads(b))
    /\ \A r \in (IF ret.op = "core_cycle" THEN core.reclaimed ELSE {}) :
          /\ r.hardware_done /\ ~r.pending_writes /\ ~r.done_exit
          /\ core.warps[r.warp_id].done_exit
          /\ StatusBeforeReclaim(r.block_hw_id) - core.block_status[r.block_hw_id]
               = ReclaimedThreads(r.block_hw_id, 0) + ReclaimedThreads(r.block_hw_id, 1)
    /\ core.barriers = {b \in BlockSlots : core.block_status[b] > 0}
    /\ core.num_active_blocks = Cardinality({b \in BlockSlots : core.block_status[b] > 0})

\* C18 witness: while two blocks were active, the last warp of one of them was
\* reclaimed; the block's status reached 0, its barrier is deallocated and one
\* block is active
C18_Witness ==
    /\ ret.op = "core_cycle"
    /\ \E r \in core.reclaimed :
          /\ r.threads = 2 /\ r.block_status = 2 /\ r.num_active_blocks = 2
          /\ core.block_status[r.block_hw_id] = 0
          /\ r.block_hw_id \notin core.barriers
    /\ core.num_active_blocks = 1
    /\ Cardinality(core.barriers) = 1

\* the slot a step issued a block to
IssuedSlots == {b \in BlockSlots : core.block_status[b] = 0 /\ core'.block_status[b] > 0}

\* the hardware threads a step made active
IssuedThreads == {t \in Tids : core.thread_state[t] # "ACTIVE" /\ core'.thread_state[t] = "ACTIVE"}

\* the hardware threads of the blocks active before a step
ThreadsOfActiveBlocks ==
    UNION {ThreadRange(b) : b \in {x \in BlockSlots : core.block_status[x] > 0}}

\* C19: a block is issued only while num_active_blocks < max_blocks(kernel);
\* num_active_blocks is the number of slots with non-zero block_status, so a
\* free slot exists; the block takes the lowest free slot and the thread range
\* [slot * padded_block_size, slot * padded_block_size + threads_per_block),
\* disjoint from the range of every other active block
C19_IssueBlockTakesLowestFreeSlot ==
    [][/\ core'.num_active_blocks
            = Cardinality({b \in BlockSlots : core'.block_status[b] > 0})
       /\ ret'.op = "issue_block" =>
            /\ core.num_active_blocks < max_blocks(core.kernel)
            /\ ~core'.panic
            /\ IssuedSlots = {MinIndex({b \in BlockSlots : core.block_status[b] = 0})}
            /\ core'.num_active_blocks = core.num_active_blocks + 1
            /\ IssuedThreads = UNION {ThreadRange(b) : b \in IssuedSlots}
            /\ IssuedThreads \cap ThreadsOfActiveBlocks = {}
            /\ \A t \in ThreadsOfActiveBlocks :
                  core'.thread_state[t] = core.thread_state[t]]_vars

\* C19 witness: the last block of the kernel was issued to slot 0, which a
\* finished block had freed, while the block in slot 1 is still running
C19_Witness ==
    /\ ret.op = "issue_block"
    /\ core.kernel.blocks_left = 0
    /\ core.num_active_blocks = 2
    /\ core.warps[0].trace_pc = 0 /\ core.warps[0].num_instr_in_pipeline = 0
    /\ core.warps[1].trace_pc > 0
    /\ core.thread_state[0] = "ACTIVE" /\ core.thread_state[WarpSize] = "ACTIVE"

\* the instructions issued and not yet written back: in a pipeline register or
\* in the functional unit
InFlight ==
    {core.pipeline_reg[st] : st \in PipelineStages} \cup {core.functional_unit}

\* the places that hold an instruction of warp w
HeldIn(w) ==
    {st \in PipelineStages :
        core.pipeline_reg[st] # NoInstr /\ core.pipeline_reg[st].warp_id = w}
    \cup (IF core.functional_unit # NoInstr /\ core.functional_unit.warp_id = w
          THEN {"functional_unit"} ELSE {})

\* C20: num_instr_in_pipeline of a warp is the number of its instructions in
\* its i-buffer, in a pipeline register or in a functional unit (decode adds
\* one per buffered instruction, writeback subtracts one per instruction
\* drained from EX_WB), and the registers reserved in the scoreboard are
\* exactly the destinations of the instructions issued and not yet written back
C20_InstrInPipelineCounted ==
    /\ ~core.panic
    /\ \A w \in WarpIds :
          core.warps[w].num_instr_in_pipeline
            = Len(core.warps[w].ibuffer) + Cardinality(HeldIn(w))
    /\ core.scoreboard = UNION {Outputs(i) : i \in InFlight \ {NoInstr}}

\* C20 witness: a warp has one instruction in its i-buffer, one in the
\* functional unit whose register is reserved, and the writeback of the cycle
\* drained EX_WB
C20_Witness ==
    /\ ret.op = "core_cycle"
    /\ \E w \in WarpIds :
          /\ core.warps[w].num_instr_in_pipeline = 2
          /\ Len(core.warps[w].ibuffer) = 1
          /\ core.functional_unit # NoInstr
          /\ core.functional_unit.warp_id = w
          /\ <<w, core.functional_unit.dest>> \in core.scoreboard
    /\ core.pipeline_reg["EX_WB"] = NoInstr

\* C21: within a warp the instructions are issued in trace order: the
\* sequence issued so far is a prefix of the trace, the i-buffer holds the next
\* trace instructions in sequence (at most two, slots 0 and 1), and every
\* decoded instruction is either issued or in the i-buffer
C21_IssuedIsTracePrefix ==
    \A w \in WarpIds :
      LET wp == core.warps[w]
      IN /\ Len(wp.issued) <= Len(wp.trace)
         /\ \A i \in 1..Len(wp.issued) : wp.issued[i] = i
         /\ Len(wp.ibuffer) <= 2
         /\ \A i \in 1..Len(wp.ibuffer) :
               /\ wp.ibuffer[i].trace_idx = Len(wp.issued) + i
               /\ wp.ibuffer[i] = [wp.trace[Len(wp.issued) + i] EXCEPT !.warp_id = w]
         /\ wp.trace_pc = Len(wp.issued) + Len(wp.ibuffer)

\* C21 witness: a warp decoded two instructions in one step, issued the first
\* and still holds the second; its fetch buffer entry was invalidated
C21_Witness ==
    /\ ret.op = "core_cycle"
    /\ ~core.instr_fetch_buffer.valid
    /\ \E w \in WarpIds :
          /\ core.warps[w].issued = <<1>>
          /\ Len(core.warps[w].ibuffer) = 1
          /\ core.warps[w].ibuffer[1].trace_idx = 2
          /\ core.warps[w].trace_pc = 2
          /\ Len(core.warps[w].trace) = 3

\* ------------------------------------------------------------------------
\* Execute stage: result busses and functional units
\* ------------------------------------------------------------------------
MAX_ALU_LATENCY == 3
NumResultBusses == 2
NumUnits == 4

Latencies == 1..(MAX_ALU_LATENCY - 1)
ResultBusIds == 1..NumResultBusses
UnitIds == 1..NumUnits

\* an instruction in the execute stage: its latency, the cycles left in its
\* unit, and the result bus reserved for it (0 = none)
ExecInstr(latency) == [latency |-> latency, remaining |-> latency, bus |-> 0]

\* the state of the execute stage: one result bus per EX_WB slot, each the
\* set of its reserved cells; per unit whether it is stallable, its issue
\* register and the instructions in it; the instructions that arrived in
\* EX_WB, and what the last execute step issued and stalled
NewExecute(stallable) ==
    [result_busses |-> [b \in ResultBusIds |-> {}],
     stallable |-> stallable,
     pipeline_reg |-> [u \in UnitIds |-> NoInstr],
     functional_units |-> [u \in UnitIds |-> {}],
     ex_wb |-> {},
     issued |-> {},
     stalled |-> {}]

\* res_bus.shift_left(1): every cell moves one position toward index 0
\* variant: the busses are not shifted
shift_left_Stuck(bus) == bus

shift_left(bus) == {l - 1 : l \in {k \in bus : k > 0}}

\* fu.cycle(): a pipelined unit advances its instructions and hands the one
\* that finished to EX_WB; a stallable unit finishes its instruction when its
\* memory access is done and writes back on its own
fu_cycle(ex, fu_id, done) ==
    IF ex.stallable[fu_id]
    THEN IF done THEN [ex EXCEPT !.functional_units[fu_id] = {}] ELSE ex
    ELSE LET advanced == {[i EXCEPT !.remaining = @ - 1] : i \in ex.functional_units[fu_id]}
         IN [ex EXCEPT !.functional_units[fu_id] = {i \in advanced : i.remaining > 0},
                       !.ex_wb = @ \cup {[fu_id |-> fu_id, instr |-> i] :
                                           i \in {j \in advanced : j.remaining = 0}}]

\* fu.can_issue(instr): a stallable unit takes one instruction at a time, a
\* pipelined unit one per pipeline position
can_issue(ex, fu_id, instr) ==
    IF ex.stallable[fu_id]
    THEN ex.functional_units[fu_id] = {}
    ELSE \A i \in ex.functional_units[fu_id] : i.remaining # instr.latency

\* result_busses.iter_mut().find(|bus| !bus[instr.latency]), 0 if none
\* variant: the first bus is taken whether or not its cell is free
find_result_bus_First(ex, latency) == 1

find_result_bus(ex, latency) ==
    LET free == {b \in ResultBusIds : latency \notin ex.result_busses[b]}
    IN IF free = {} THEN 0 ELSE MinIndex(free)

fu_issue(ex, fu_id, instr, bus) ==
    [ex EXCEPT !.functional_units[fu_id] = @ \cup {[instr EXCEPT !.bus = bus]},
               !.pipeline_reg[fu_id] = NoInstr,
               !.issued = @ \cup {[fu_id |-> fu_id, instr |-> [instr EXCEPT !.bus = bus]]}]

\* variant: the result bus is reserved for the stallable units
ExecuteUnit_StallableReserves(ex, fu_id, done) ==
    LET cycled == fu_cycle(ex, fu_id, done)
        instr == cycled.pipeline_reg[fu_id]
        schedule_wb_now == cycled.stallable[fu_id]
        result_bus == find_result_bus(cycled, instr.latency)
    IN IF instr = NoInstr \/ ~can_issue(cycled, fu_id, instr)
       THEN cycled
       ELSE IF result_bus # 0 /\ schedule_wb_now
       THEN fu_issue([cycled EXCEPT !.result_busses[result_bus] = @ \cup {instr.latency}],
                     fu_id, instr, result_bus)
       ELSE IF ~schedule_wb_now
       THEN fu_issue(cycled, fu_id, instr, 0)
       ELSE [cycled EXCEPT !.stalled = @ \cup {fu_id}]

\* the body of the loop over the functional units
ExecuteUnit(ex, fu_id, done) ==
    LET cycled == fu_cycle(ex, fu_id, done)
        instr == cycled.pipeline_reg[fu_id]
        schedule_wb_now == ~cycled.stallable[fu_id]
        result_bus == find_result_bus(cycled, instr.latency)
    IN IF instr = NoInstr \/ ~can_issue(cycled, fu_id, instr)
       THEN cycled
       ELSE IF result_bus # 0 /\ schedule_wb_now
       THEN fu_issue([cycled EXCEPT !.result_busses[result_bus] = @ \cup {instr.latency}],
                     fu_id, instr, result_bus)
       ELSE IF ~schedule_wb_now
       THEN fu_issue(cycled, fu_id, instr, 0)
       ELSE [cycled EXCEPT !.stalled = @ \cup {fu_id}]

RECURSIVE ExecuteUnits(_, _, _)
ExecuteUnits(ex, fu_id, done) ==
    IF fu_id > NumUnits
    THEN ex
    ELSE ExecuteUnits(ExecuteUnit(ex, fu_id, done), fu_id + 1, done)

\* Core::execute, after writeback has emptied EX_WB
execute(ex, done) ==
    ExecuteUnits([ex EXCEPT !.result_busses = [b \in ResultBusIds |-> shift_left(@[b])],
                            !.ex_wb = {}, !.issued = {}, !.stalled = {}],
                 1, done)

\* the units of a core: the arithmetic units, all of one kind, and the
\* load/store unit last
UnitKinds ==
    {[u \in UnitIds |-> IF u < NumUnits THEN alu ELSE ldst] : alu \in BOOLEAN, ldst \in BOOLEAN}

InitExecute ==
    /\ cfg = [write_policy |-> "READ_ONLY", write_allocate_policy |-> "NO_WRITE_ALLOCATE",
              allocate_policy |-> "ON_MISS", miss_queue_size |-> 1]
    /\ c = EmptyCache
    /\ replies = {}
    /\ time = 0
    /\ next_uid = 1
    /\ panicked = FALSE
    /\ ret = NoRet
    /\ issued = <<>>
    /\ queued = <<>>
    /\ sent = <<>>
    /\ block = NewBlock("mask")
    /\ cluster = IdleCluster
    /\ \E stallable \in UnitKinds : core = NewExecute(stallable)

\* the latency of the instructions of a unit: the first unit is the fastest
UnitLatency(fu_id) == IF fu_id = 1 THEN 1 ELSE MAX_ALU_LATENCY - 1

\* the operand collector dispatches an instruction to a free issue register
ExecuteDispatch ==
    /\ \E fu_id \in UnitIds :
          /\ core.pipeline_reg[fu_id] = NoInstr
          /\ core' = [core EXCEPT !.pipeline_reg[fu_id] = ExecInstr(UnitLatency(fu_id))]
    /\ ret' = [NoRet EXCEPT !.op = "dispatch"]
    /\ UNCHANGED <<cfg, c, replies, time, next_uid, panicked, issued, queued, sent, block, cluster>>

ExecuteStep ==
    /\ \E done \in BOOLEAN : core' = execute(core, done)
    /\ ret' = [NoRet EXCEPT !.op = "execute"]
    /\ UNCHANGED <<cfg, c, replies, time, next_uid, panicked, issued, queued, sent, block, cluster>>

NextExecute == ExecuteDispatch \/ ExecuteStep

SpecExecute == InitExecute /\ [][NextExecute]_vars

\* the instructions in the units that reserve a result bus
Scheduled ==
    UNION {{[fu_id |-> u, instr |-> i] : i \in core.functional_units[u]} :
             u \in {v \in UnitIds : ~core.stallable[v]}}

\* C22: no result-bus cell is reserved twice: every instruction in a unit that
\* schedules its writeback holds the cell of one bus at the offset of its
\* remaining latency, no two of them hold the same cell, every reserved cell
\* is held, the cells move toward index 0 with the instructions, and no more
\* instructions than there are result busses complete in one cycle
C22_ResultBusCellsReservedOnce ==
    /\ \A s \in Scheduled :
          /\ s.instr.bus \in ResultBusIds
          /\ s.instr.remaining \in core.result_busses[s.instr.bus]
    /\ \A s, t \in Scheduled :
          s # t => <<s.instr.bus, s.instr.remaining>> # <<t.instr.bus, t.instr.remaining>>
    /\ \A b \in ResultBusIds : \A k \in core.result_busses[b] :
          /\ k < MAX_ALU_LATENCY
          /\ k > 0 => \E s \in Scheduled : s.instr.bus = b /\ s.instr.remaining = k
          /\ k = 0 => \E e \in core.ex_wb : e.instr.bus = b
    /\ \A e, f \in core.ex_wb : e # f => e.instr.bus # f.instr.bus
    /\ \A e \in core.ex_wb : e.instr.bus \in ResultBusIds /\ 0 \in core.result_busses[e.instr.bus]
    /\ Cardinality(core.ex_wb) <= NumResultBusses
    /\ \A k \in Latencies : Cardinality({s \in Scheduled : s.instr.remaining = k}) <= NumResultBusses

\* C22 witness: as many instructions as there are result busses completed in
\* this execute step, and a further unit could not reserve a cell
C22_Witness ==
    /\ ret.op = "execute"
    /\ Cardinality(core.ex_wb) = NumResultBusses
    /\ core.stalled # {}
    /\ \E k \in Latencies : \A b \in ResultBusIds : k \in core.result_busses[b]

\* C23 as stated: an instruction issued to a stallable unit has reserved a
\* result-bus cell, and one issued to a non-stallable unit has reserved none
C23_StallableReservesResultBus ==
    \A e \in core.issued :
        /\ core.stallable[e.fu_id] => e.instr.bus # 0
        /\ ~core.stallable[e.fu_id] => e.instr.bus = 0

\* C23, amended: execute issues a ready instruction to a non-stallable unit
\* only with a result-bus cell reserved at offset instr.latency, and otherwise
\* leaves it in its issue register; it issues to a stallable unit whenever
\* the unit can take the instruction and reserves no cell for it
C23_NonStallableReservesResultBus ==
    /\ \A e \in core.issued :
          /\ ~core.stallable[e.fu_id] =>
                /\ e.instr.bus \in ResultBusIds
                /\ e.instr.latency \in core.result_busses[e.instr.bus]
          /\ core.stallable[e.fu_id] => e.instr.bus = 0
          /\ e.instr \in core.functional_units[e.fu_id]
    /\ \A u \in core.stalled :
          /\ ~core.stallable[u]
          /\ core.pipeline_reg[u] # NoInstr
          /\ \A b \in ResultBusIds : core.pipeline_reg[u].latency \in core.result_busses[b]
    /\ ret.op = "execute" =>
          \A u \in UnitIds :
              core.pipeline_reg[u] # NoInstr =>
                  u \in core.stalled \/ ~can_issue(core, u, core.pipeline_reg[u])

\* C23 witness: in one execute step a non-stallable unit kept its instruction
\* for want of a free cell, and a stallable unit was issued an instruction
\* although no bus had a free cell at its latency
C23_Witness ==
    /\ ret.op = "execute"
    /\ core.stalled # {}
    /\ \E e \in core.issued :
          /\ core.stallable[e.fu_id]
          /\ e.instr.bus = 0
          /\ \A b \in ResultBusIds : e.instr.latency \in core.result_busses[b]

\* the first warp of a set in cyclic order starting after last (None counts
\* as warp 0)
FirstAfter(last, warps) ==
    LET from == ((IF last = NoIndex THEN 0 ELSE last) + 1) % max_warps_per_core
        dist(w) == (w + max_warps_per_core - from) % max_warps_per_core
    IN CHOOSE w \in warps : \A v \in warps : dist(w) <= dist(v)

\* C24: a fetch step that finds the fetch buffer empty and no ready access
\* makes at most one instruction cache access, for the first warp after
\* last_warp_fetched that should fetch; it records that warp as
\* last_warp_fetched, a miss sets has_imiss_pending, and a warp has a pending
\* miss exactly while its one access is outstanding
C24_FetchAccessesFirstEligibleWarp ==
    /\ \A i \in 1..Len(core.fetched) :
         LET r == core.fetched[i]
         IN /\ Len(r.accesses) <= 1
            /\ r.valid \/ r.ready => r.accesses = <<>> /\ r.last_after = r.last
            /\ ~r.valid /\ ~r.ready /\ r.eligible = {} =>
                  r.accesses = <<>> /\ r.last_after = r.last
            /\ ~r.valid /\ ~r.ready /\ r.eligible # {} =>
                  /\ r.accesses = <<FirstAfter(r.last, r.eligible)>>
                  /\ r.last_after = r.accesses[1]
                  /\ r.status = "MISS" => r.accesses[1] \in r.imiss_after
                  /\ r.status # "MISS" => r.accesses[1] \notin r.imiss_after
                  /\ r.buffer_after.valid = (r.status = "HIT")
                  /\ r.status = "HIT" => r.buffer_after.warp_id = r.accesses[1]
    /\ \A w \in WarpIds :
         Cardinality({i \in 1..Len(core.instr_l1_cache) : core.instr_l1_cache[i] = w})
           = IF core.warps[w].has_imiss_pending THEN 1 ELSE 0

\* C24 witness: with two warps that should fetch, the fetch step passed over
\* the lower one, accessed the one after last_warp_fetched and missed, while
\* the miss of the other warp is still outstanding
C24_Witness ==
    /\ core.fetched # <<>>
    /\ LET r == core.fetched[1]
       IN /\ ~r.valid /\ ~r.ready
          /\ r.status = "MISS"
          /\ Cardinality(r.eligible) = 2
          /\ r.accesses = <<1>>
          /\ r.last = 0
          /\ core.warps[1].has_imiss_pending
          /\ core.last_warp_fetched = 1

\* C25 as stated: the fetch step after a RESERVATION_FAIL accesses the warp
\* whose access failed
C25_FailedWarpIsNextTried ==
    \A i \in 1..Len(core.fetched) :
        core.fetched[i].prev_fail # NoIndex =>
            core.fetched[i].accesses = <<core.fetched[i].prev_fail>>

\* C25, amended: a RESERVATION_FAIL leaves the warp without a pending miss and
\* the fetch buffer invalid and records the warp as last_warp_fetched; at the
\* next fetch step the buffer is still invalid and the warp still should
\* fetch, and a scan starts at the warp after it, so the failed warp is
\* accessed again only if it is the only warp that should fetch
C25_FailedWarpStaysFetchable ==
    \A i \in 1..Len(core.fetched) :
        LET r == core.fetched[i]
        IN /\ r.status = "RESERVATION_FAIL" /\ r.accesses # <<>> =>
                /\ r.accesses[1] \notin r.imiss_after
                /\ ~r.buffer_after.valid
                /\ r.last_after = r.accesses[1]
           /\ r.prev_fail # NoIndex =>
                /\ ~r.valid
                /\ r.last = r.prev_fail
                /\ r.prev_fail \in r.eligible
                /\ ~r.ready =>
                     /\ r.accesses # <<>>
                     /\ r.accesses[1] = r.prev_fail <=> r.eligible = {r.prev_fail}

\* C25 witness: the access of warp 0 failed and the next fetch step accessed
\* warp 1 although warp 0 still should fetch
C25_Witness ==
    /\ core.fetched # <<>>
    /\ core.fetched[1].prev_fail = 0
    /\ core.fetched[1].accesses = <<1>>
    /\ 0 \in core.fetched[1].eligible
    /\ ~core.fetched[1].ready

\* ------------------------------------------------------------------------
\* The cluster's interconnect cycle
\* ------------------------------------------------------------------------
InitCluster ==
    /\ cfg = [write_policy |-> "READ_ONLY", write_allocate_policy |-> "NO_WRITE_ALLOCATE",
              allocate_policy |-> "ON_MISS", miss_queue_size |-> 1]
    /\ c = EmptyCache
    /\ replies = {}
    /\ time = 0
    /\ next_uid = 1
    /\ panicked = FALSE
    /\ ret = NoRet
    /\ issued = <<>>
    /\ queued = <<>>
    /\ sent = <<>>
    /\ block = NewBlock("mask")
    /\ core = IdleCore
    /\ \E size \in 1..MaxEjectionBufferSize : cluster = NewCluster(size)

\* the interconnect receives a response for a core of the cluster
InterconnPush ==
    /\ cluster.sent < MaxPackets
    /\ \E k \in ClusterCoreIds, kind \in {"INST_ACC_R", "GLOBAL_ACC_R"} :
          cluster' = [cluster EXCEPT
                        !.sent = @ + 1,
                        !.interconn = Append(@, [uid |-> cluster.sent + 1,
                                                 core_id |-> global_core_id(ClusterId, k),
                                                 kind |-> kind])]
    /\ ret' = [NoRet EXCEPT !.op = "push"]
    /\ UNCHANGED <<cfg, c, replies, time, next_uid, panicked, issued, queued, sent, block, core>>

ClusterInterconnCycle ==
    /\ cluster' = interconn_cycle(cluster)
    /\ ret' = [NoRet EXCEPT !.op = "interconn_cycle"]
    /\ UNCHANGED <<cfg, c, replies, time, next_uid, panicked, issued, queued, sent, block, core>>

\* a load/store unit takes a response out of its response buffer
LdstUnitCycle ==
    /\ \E k \in ClusterCoreIds :
          /\ cluster.ldst_response[k] # <<>>
          /\ cluster' = [cluster EXCEPT !.ldst_response[k] = Tail(@)]
    /\ ret' = [NoRet EXCEPT !.op = "ldst_cycle"]
    /\ UNCHANGED <<cfg, c, replies, time, next_uid, panicked, issued, queued, sent, block, core>>

NextCluster == InterconnPush \/ ClusterInterconnCycle \/ LdstUnitCycle

SpecCluster == InitCluster /\ [][NextCluster]_vars

\* C26: the response FIFO never holds more than
\* num_cluster_ejection_buffer_size fetches; the responses are delivered in
\* the order they arrived, each to the core it names, an instruction fetch to
\* the instruction cache and any other to the load/store unit, whose response
\* buffer is never overfilled; an interconnect cycle removes at most the head,
\* nothing when the head is blocked, and pops at most one packet
C26_ResponseFifoBoundedAndInOrder ==
    /\ Len(cluster.response_fifo) <= cluster.num_cluster_ejection_buffer_size
    /\ cluster.arrived = [i \in 1..Len(cluster.arrived) |-> i]
    /\ cluster.arrived =
         [i \in 1..Len(cluster.delivered) |-> cluster.delivered[i].uid]
           \o [i \in 1..Len(cluster.response_fifo) |-> cluster.response_fifo[i].uid]
    /\ \A i \in 1..Len(cluster.delivered) :
         LET d == cluster.delivered[i]
         IN /\ d.unit = (IF d.fetch.kind = "INST_ACC_R" THEN "fetch" ELSE "ldst")
            /\ d.core_id = d.fetch.core_id - ClusterId * NumCoresPerCluster
    /\ \A k \in ClusterCoreIds :
         Len(cluster.ldst_response[k]) <= LdstResponseBufferSize
    /\ Len(cluster.last.removed) <= 1
    /\ Len(cluster.last.popped) <= 1
    /\ cluster.last.removed # <<>> => cluster.last.removed[1] = cluster.last.head
    /\ cluster.last.blocked => cluster.last.removed = <<>>

\* C26 witness: the FIFO is full, its head waits for a full load/store unit
\* and holds back an instruction fetch response behind it, after an earlier
\* response was delivered, so the interconnect's packet was not popped
C26_Witness ==
    /\ ret.op = "interconn_cycle"
    /\ cluster.last.blocked
    /\ cluster.delivered # <<>>
    /\ Len(cluster.response_fifo) = MaxEjectionBufferSize
    /\ cluster.response_fifo[2].kind = "INST_ACC_R"
    /\ cluster.interconn # <<>>
    /\ cluster.last.popped = <<>>

\* ------------------------------------------------------------------------
\* Local memory address translation
\* ------------------------------------------------------------------------
MaxCores == 2
MaxLocalAddr == 9
LOCAL_GENERIC_START == 64
MAX_ACCESSES_PER_INSN_PER_THREAD == 8

CoreIdsOf(num_cores) == 0..(num_cores - 1)
LocalAddrs == 0..MaxLocalAddr
DataSizes == {1, 2, 4, 8}

\* the hardware thread ids the blocks of a kernel occupy on a core
KernelTids(kernel) ==
    {t \in Tids : \E b \in 0..(max_blocks(kernel) - 1) :
        /\ t >= b * threads_per_block_padded(kernel)
        /\ t < b * threads_per_block_padded(kernel) + kernel.threads_per_block}

\* the base of a thread in the shared address space and the threads that
\* share it, as <<thread_base, max_concurrent_threads>>
\* variant: blocks of one core are laid out next to each other
ThreadBase_CoresNotInterleaved(local_mem_map, kernel, core_id, thread_id, num_cores) ==
    IF local_mem_map
    THEN LET padded == threads_per_block_padded(kernel)
             temp == core_id + (thread_id \div padded)
             rest == thread_id % padded
         IN <<4 * (padded * temp + rest), padded * max_blocks(kernel) * num_cores>>
    ELSE <<4 * (MaxThreadsPerCore * core_id + thread_id), num_cores * MaxThreadsPerCore>>

ThreadBase(local_mem_map, kernel, core_id, thread_id, num_cores) ==
    IF local_mem_map
    THEN LET padded == threads_per_block_padded(kernel)
             temp == core_id + num_cores * (thread_id \div padded)
             rest == thread_id % padded
         IN <<4 * (padded * temp + rest), padded * max_blocks(kernel) * num_cores>>
    ELSE <<4 * (MaxThreadsPerCore * core_id + thread_id), num_cores * MaxThreadsPerCore>>

\* the addresses of the 4-byte words of an access of at least 4 bytes
WordAddresses(local_addr, data_size, thread_base, max_concurrent_threads) ==
    [i \in 1..(data_size \div 4) |->
        ((local_addr \div 4) + (i - 1)) * max_concurrent_threads * 4
          + thread_base + LOCAL_GENERIC_START]

\* the address of an access of less than 4 bytes
SubWordAddress(local_addr, thread_base, max_concurrent_threads) ==
    (local_addr \div 4) * max_concurrent_threads * 4 + (local_addr % 4)
      + thread_base + LOCAL_GENERIC_START

\* Core::translate_local_memaddr; a failed debug assertion is a panic
translate_local_memaddr(local_mem_map, kernel, core_id, local_addr, thread_id, num_cores, data_size) ==
    LET tb == ThreadBase(local_mem_map, kernel, core_id, thread_id, num_cores)
    IN [thread_base |-> tb[1],
        max_concurrent_threads |-> tb[2],
        panic |-> \/ ~(tb[1] < 4 * tb[2])
                  \/ data_size >= 4 /\ data_size % 4 # 0
                  \/ data_size >= 4 /\ data_size \div 4 > MAX_ACCESSES_PER_INSN_PER_THREAD
                  \/ data_size >= 4 /\ local_addr % 4 # 0
                  \/ data_size = 0
                  \/ data_size < 4 /\ (local_addr + data_size - 1) \div 4 # local_addr \div 4,
        addresses |-> IF data_size >= 4
                      THEN WordAddresses(local_addr, data_size, tb[1], tb[2])
                      ELSE <<SubWordAddress(local_addr, tb[1], tb[2])>>]

\* the bytes an access of data_size bytes touches at its translated addresses
TranslatedBytes(addresses, data_size) ==
    UNION {{addresses[i] + k : k \in 0..((IF data_size >= 4 THEN 4 ELSE data_size) - 1)} :
             i \in 1..Len(addresses)}

\* the accesses a thread of some core can make
LocalAccesses(kernel, num_cores) ==
    [core_id : CoreIdsOf(num_cores), thread_id : KernelTids(kernel),
     local_addr : LocalAddrs, data_size : DataSizes]

InitLocalMem ==
    /\ cfg = [write_policy |-> "READ_ONLY", write_allocate_policy |-> "NO_WRITE_ALLOCATE",
              allocate_policy |-> "ON_MISS", miss_queue_size |-> 1]
    /\ c = EmptyCache
    /\ replies = {}
    /\ time = 0
    /\ next_uid = 1
    /\ panicked = FALSE
    /\ ret = NoRet
    /\ issued = <<>>
    /\ queued = <<>>
    /\ sent = <<>>
    /\ block = NewBlock("mask")
    /\ cluster = IdleCluster
    /\ \E local_mem_map \in BOOLEAN, kernel \in Kernels, num_cores \in 1..MaxCores :
          core = [local_mem_map |-> local_mem_map, kernel |-> kernel, num_cores |-> num_cores,
                  access |-> [core_id |-> 0, thread_id |-> 0, local_addr |-> 0, data_size |-> 0],
                  translated |-> [thread_base |-> 0, max_concurrent_threads |-> 0,
                                  panic |-> FALSE, addresses |-> <<>>]]

\* a thread's local memory access is translated at issue
TranslateLocal ==
    /\ \E a \in LocalAccesses(core.kernel, core.num_cores) :
          core' = [core EXCEPT
                     !.access = a,
                     !.translated = translate_local_memaddr(
                                      core.local_mem_map, core.kernel, a.core_id,
                                      a.local_addr, a.thread_id, core.num_cores, a.data_size)]
    /\ ret' = [NoRet EXCEPT !.op = "translate_local_memaddr"]
    /\ UNCHANGED <<cfg, c, replies, time, next_uid, panicked, issued, queued, sent, block, cluster>>

NextLocalMem == TranslateLocal

SpecLocalMem == InitLocalMem /\ [][NextLocalMem]_vars

\* C27: the bytes of a translated access are disjoint from the bytes of every
\* access of another (core_id, thread_id) pair, under the strided and the
\* linear scheme, and thread_base < 4 * max_concurrent_threads
C27_LocalAddressesDisjoint ==
    ret.op = "translate_local_memaddr" =>
      /\ core.translated.thread_base < 4 * core.translated.max_concurrent_threads
      /\ ~core.translated.panic =>
           \A o \in LocalAccesses(core.kernel, core.num_cores) :
               LET t == translate_local_memaddr(core.local_mem_map, core.kernel, o.core_id,
                                                o.local_addr, o.thread_id, core.num_cores,
                                                o.data_size)
               IN <<o.core_id, o.thread_id>> # <<core.access.core_id, core.access.thread_id>>
                    /\ ~t.panic =>
                      TranslatedBytes(t.addresses, o.data_size)
                        \cap TranslatedBytes(core.translated.addresses, core.access.data_size) = {}

\* C27 witness: under the strided scheme a thread of the second block of the
\* last core made an 8-byte access that was split in two words
C27_Witness ==
    /\ ret.op = "translate_local_memaddr"
    /\ core.local_mem_map
    /\ core.num_cores = MaxCores
    /\ core.access.core_id = MaxCores - 1
    /\ core.access.thread_id >= threads_per_block_padded(core.kernel)
    /\ core.access.local_addr = 4
    /\ Len(core.translated.addresses) = 2
    /\ ~core.translated.panic

\* ------------------------------------------------------------------------
\* Warp schedulers (greedy then oldest) and issue priority
\* ------------------------------------------------------------------------
NumSchedulers == 3
NumSchedulerWarps == 4

SchedulerIds == 0..(NumSchedulers - 1)
SchedulerWarpIds == 0..(NumSchedulerWarps - 1)

\* SchedulerWarp; two warps are equal if these four fields are
SchedulerWarp(warp_id, dynamic_warp_id) ==
    [kernel_id |-> 0, block_id |-> 0, warp_id |-> warp_id, dynamic_warp_id |-> dynamic_warp_id]

SchedulerWarp_done_exit(w) == FALSE
SchedulerWarp_waiting(w) == FALSE

sort_warps_by_oldest_dynamic_id(lhs, rhs) ==
    IF SchedulerWarp_done_exit(lhs) \/ SchedulerWarp_waiting(lhs)
    THEN "Greater"
    ELSE IF SchedulerWarp_done_exit(rhs) \/ SchedulerWarp_waiting(rhs)
    THEN "Less"
    ELSE IF lhs.dynamic_warp_id < rhs.dynamic_warp_id THEN "Less"
    ELSE IF lhs.dynamic_warp_id > rhs.dynamic_warp_id THEN "Greater"
    ELSE "Equal"

\* warps.sort_by(sort_warps_by_oldest_dynamic_id), a stable sort
RECURSIVE SortInsert(_, _)
SortInsert(sorted, w) ==
    IF sorted = <<>>
    THEN <<w>>
    ELSE IF sort_warps_by_oldest_dynamic_id(w, Head(sorted)) = "Less"
    THEN <<w>> \o sorted
    ELSE <<Head(sorted)>> \o SortInsert(Tail(sorted), w)

RECURSIVE sort_by(_)
sort_by(warps) ==
    IF warps = <<>>
    THEN <<>>
    ELSE SortInsert(sort_by(SubSeq(warps, 1, Len(warps) - 1)), warps[Len(warps)])

\* iter().take_while(|w| *w != val): the warps in front of the first one equal
\* to the greedy value
RECURSIVE take_while(_, _)
take_while(warps, greedy_value) ==
    IF warps = <<>> \/ (greedy_value # <<>> /\ Head(warps) = greedy_value[1])
    THEN <<>>
    ELSE <<Head(warps)>> \o take_while(Tail(warps), greedy_value)

take(warps, n) == SubSeq(warps, 1, IF n < Len(warps) THEN n ELSE Len(warps))

\* GTOScheduler::order_warps: the prioritized warps and the sorted warps
\* variant: no warp is preferred for having issued last
order_warps_OldestOnly(warps, last_issued_warps, num_warps_to_add) ==
    [out |-> take(sort_by(warps), num_warps_to_add),
     warps |-> sort_by(warps),
     panic |-> num_warps_to_add > Len(warps)]

order_warps(warps, last_issued_warps, num_warps_to_add) ==
    [out |-> take(last_issued_warps, 1)
               \o take(take_while(sort_by(warps), take(last_issued_warps, 1)), num_warps_to_add),
     warps |-> sort_by(warps),
     panic |-> num_warps_to_add > Len(warps)]

\* a scheduler: the warps it supervises, the warp it issued last, the
\* prioritized warps of its last cycle; and what it saw and did in that cycle
NewScheduler(warps) ==
    [warps |-> warps,
     last_issued_warps |-> <<>>,
     next_cycle_prioritized_warps |-> <<>>,
     eligible |-> {},
     last_before |-> <<>>,
     issued |-> NoIndex,
     prev_issued |-> NoIndex]

\* the positions of the prioritized warps that can issue
CanIssue(out, eligible) == {i \in 1..Len(out) : out[i].warp_id \in eligible}

\* the cycle of a scheduler: the first prioritized warp that can issue does
SchedulerCycle(sc, eligible) ==
    LET ordered == order_warps(sc.warps, sc.last_issued_warps, Len(sc.warps))
        mine == {w \in eligible : \E i \in 1..Len(sc.warps) : sc.warps[i].warp_id = w}
        at == CanIssue(ordered.out, mine)
    IN [sc EXCEPT
          !.warps = ordered.warps,
          !.next_cycle_prioritized_warps = ordered.out,
          !.eligible = mine,
          !.last_before = sc.last_issued_warps,
          !.prev_issued = sc.issued,
          !.issued = IF at = {} THEN NoIndex ELSE ordered.out[MinIndex(at)].warp_id,
          !.last_issued_warps = IF at = {} THEN @ ELSE <<ordered.out[MinIndex(at)]>>]

\* the schedulers of a core, warp i supervised by scheduler i % NumSchedulers
NewIssue(dynamic_warp_id) ==
    [schedulers |->
        [s \in SchedulerIds |->
            NewScheduler(
              [i \in 1..Cardinality({w \in SchedulerWarpIds : w % NumSchedulers = s}) |->
                  SchedulerWarp(s + (i - 1) * NumSchedulers,
                                dynamic_warp_id[s + (i - 1) * NumSchedulers])])],
     scheduler_issue_priority |-> 0,
     ran |-> <<>>,
     firsts |-> <<>>]

RECURSIVE IssueSchedulers(_, _, _)
IssueSchedulers(cr, scheduler_idx, eligible) ==
    IF scheduler_idx = NumSchedulers
    THEN cr
    ELSE IssueSchedulers(
           [cr EXCEPT
              !.schedulers[(cr.scheduler_issue_priority + scheduler_idx) % NumSchedulers] =
                  SchedulerCycle(@, eligible),
              !.ran = Append(@, (cr.scheduler_issue_priority + scheduler_idx) % NumSchedulers)],
           scheduler_idx + 1, eligible)

\* the first schedulers of the last NumSchedulers issue stages
LastFirsts(q) == IF Len(q) > NumSchedulers THEN Tail(q) ELSE q

\* Core::issue
\* variant: the priority is not rotated
issue_FixedPriority(cr, eligible) ==
    LET done == IssueSchedulers([cr EXCEPT !.ran = <<>>], 0, eligible)
    IN [done EXCEPT !.firsts = LastFirsts(Append(@, done.ran[1]))]

issue(cr, eligible) ==
    LET done == IssueSchedulers([cr EXCEPT !.ran = <<>>], 0, eligible)
    IN [done EXCEPT
          !.scheduler_issue_priority = (@ + 1) % NumSchedulers,
          !.firsts = LastFirsts(Append(@, done.ran[1]))]

\* the dynamic warp ids: the warps were started in rotated or reversed order
DynamicWarpIds ==
    {[w \in SchedulerWarpIds |->
        IF flip THEN (NumSchedulerWarps - 1) - ((w + k) % NumSchedulerWarps)
        ELSE (w + k) % NumSchedulerWarps] : k \in {0, 1}, flip \in BOOLEAN}

InitIssue ==
    /\ cfg = [write_policy |-> "READ_ONLY", write_allocate_policy |-> "NO_WRITE_ALLOCATE",
              allocate_policy |-> "ON_MISS", miss_queue_size |-> 1]
    /\ c = EmptyCache
    /\ replies = {}
    /\ time = 0
    /\ next_uid = 1
    /\ panicked = FALSE
    /\ ret = NoRet
    /\ issued = <<>>
    /\ queued = <<>>
    /\ sent = <<>>
    /\ block = NewBlock("mask")
    /\ cluster = IdleCluster
    /\ \E dynamic_warp_id \in DynamicWarpIds : core = NewIssue(dynamic_warp_id)

\* the issue stage of a core cycle; the warps that can issue are an input
IssueStage ==
    /\ \E eligible \in SUBSET SchedulerWarpIds : core' = issue(core, eligible)
    /\ ret' = [NoRet EXCEPT !.op = "issue"]
    /\ UNCHANGED <<cfg, c, replies, time, next_uid, panicked, issued, queued, sent, block, cluster>>

NextIssue == IssueStage

SpecIssue == InitIssue /\ [][NextIssue]_vars

\* the warps of a sequence, as a set
WarpsOf(q) == {q[i] : i \in 1..Len(q)}

\* the supervised warps handed to order_warps: every order of
\* NumOrderedWarps warps with distinct dynamic warp ids
NumOrderedWarps == 4

InitOrderWarps ==
    /\ cfg = [write_policy |-> "READ_ONLY", write_allocate_policy |-> "NO_WRITE_ALLOCATE",
              allocate_policy |-> "ON_MISS", miss_queue_size |-> 1]
    /\ c = EmptyCache
    /\ replies = {}
    /\ time = 0
    /\ next_uid = 1
    /\ panicked = FALSE
    /\ ret = NoRet
    /\ issued = <<>>
    /\ queued = <<>>
    /\ sent = <<>>
    /\ block = NewBlock("mask")
    /\ cluster = IdleCluster
    /\ \E f \in Permutations(1..NumOrderedWarps) :
          core = [warps |-> [i \in 1..NumOrderedWarps |-> SchedulerWarp(i - 1, f[i] - 1)],
                  supervised |-> [i \in 1..NumOrderedWarps |-> SchedulerWarp(i - 1, f[i] - 1)],
                  last_issued_warps |-> <<>>,
                  out |-> <<>>]

\* order_warps is called with all supervised warps to add; the last-issued
\* warp, if any, is one of them
OrderWarps ==
    /\ \E last \in {<<>>} \cup {<<core.warps[i]>> : i \in 1..Len(core.warps)} :
          core' = [core EXCEPT
                     !.supervised = core.warps,
                     !.last_issued_warps = last,
                     !.out = order_warps(core.warps, last, Len(core.warps)).out,
                     !.warps = order_warps(core.warps, last, Len(core.warps)).warps]
    /\ ret' = [NoRet EXCEPT !.op = "order_warps"]
    /\ UNCHANGED <<cfg, c, replies, time, next_uid, panicked, issued, queued, sent, block, cluster>>

NextOrderWarps == OrderWarps

SpecOrderWarps == InitOrderWarps /\ [][NextOrderWarps]_vars

\* C28 as stated: with all supervised warps to add, the candidate list is the
\* last-issued warp (if any) followed by all other supervised warps, oldest
\* dynamic warp id first, and every supervised warp appears exactly once
C28_EveryWarpOnceInCandidates ==
    ret.op = "order_warps" =>
      /\ WarpsOf(core.out) = WarpsOf(core.supervised)
      /\ Len(core.out) = Len(core.supervised)
      /\ core.last_issued_warps # <<>> => core.out[1] = core.last_issued_warps[1]
      /\ \A i, j \in 1..Len(core.out) :
            (IF core.last_issued_warps = <<>> THEN 1 ELSE 2) <= i /\ i < j =>
                core.out[i].dynamic_warp_id < core.out[j].dynamic_warp_id

OlderThanLast(sc) ==
    {w \in WarpsOf(sc.warps) :
        sc.last_before = <<>> \/ w.dynamic_warp_id < sc.last_before[1].dynamic_warp_id}

C30_IssuePriorityRotates ==
    ret.op = "issue" =>
      /\ Len(core.ran) = NumSchedulers
      /\ {core.ran[i] : i \in 1..Len(core.ran)} = SchedulerIds
      /\ \A i \in 1..Len(core.ran) : core.ran[i] = (core.ran[1] + i - 1) % NumSchedulers
      /\ core.firsts[Len(core.firsts)] = core.ran[1]
      /\ core.scheduler_issue_priority = (core.ran[1] + 1) % NumSchedulers
      /\ \A i, j \in 1..Len(core.firsts) : i # j => core.firsts[i] # core.firsts[j]
      /\ Len(core.firsts) = NumSchedulers =>
            {core.firsts[i] : i \in 1..Len(core.firsts)} = SchedulerIds

\* C30 witness: after NumSchedulers issue stages and one more, the scheduler
\* that was first at the start is first again
C30_Witness ==
    /\ ret.op = "issue"
    /\ Len(core.firsts) = NumSchedulers
    /\ core.firsts[NumSchedulers] = 0
    /\ core.firsts[1] = 1
    /\ core.scheduler_issue_priority = 1

\* ------------------------------------------------------------------------
\* A cluster of cores taking the blocks of one kernel
\* ------------------------------------------------------------------------
IssueKernels ==
    [threads_per_block : 1..MaxBlockSize, trace : {<<TraceInstr("EXIT_OPS", 0)>>},
     blocks_left : {MaxKernelBlocks}]

IssueConfig ==
    [reg_file_port_throughput |-> 1, inst_fetch_throughput |-> 1,
     perfect_inst_const_cache |-> TRUE]

InitBlockIssue ==
    /\ cfg = [write_policy |-> "READ_ONLY", write_allocate_policy |-> "NO_WRITE_ALLOCATE",
              allocate_policy |-> "ON_MISS", miss_queue_size |-> 1]
    /\ c = EmptyCache
    /\ replies = {}
    /\ time = 0
    /\ next_uid = 1
    /\ panicked = FALSE
    /\ ret = NoRet
    /\ issued = <<>>
    /\ queued = <<>>
    /\ sent = <<>>
    /\ block = NewBlock("mask")
    /\ core = IdleCore
    /\ \E kernel \in IssueKernels : cluster = NewIssueCluster(IssueConfig, kernel)

ClusterIssueBlock ==
    /\ \A i \in IssueCoreIds : ~cluster.cores[i].panic
    /\ \E selected \in BOOLEAN : cluster' = issue_block_to_core(cluster, selected)
    /\ ret' = [NoRet EXCEPT !.op = "issue_block_to_core"]
    /\ UNCHANGED <<cfg, c, replies, time, next_uid, panicked, issued, queued, sent, block, core>>

ClusterCoreCycle ==
    /\ \E core_id \in IssueCoreIds, answers \in CacheAnswers(IssueConfig) :
          /\ ~cluster.cores[core_id].panic
          /\ cluster' = [cluster EXCEPT !.cores[core_id] = core_cycle(@, answers)]
    /\ ret' = [NoRet EXCEPT !.op = "core_cycle"]
    /\ UNCHANGED <<cfg, c, replies, time, next_uid, panicked, issued, queued, sent, block, core>>

NextBlockIssue == ClusterIssueBlock \/ ClusterCoreCycle

SpecBlockIssue == InitBlockIssue /\ [][NextBlockIssue]_vars

\* the cores in the order a call visits them when the previous block went to
\* core p
CyclicOrder(p) == [i \in 1..NumIssueCores |-> (p + i) % NumIssueCores]

\* the positions in the order whose core can take a block of the kernel
Takers(cl, selected) ==
    {i \in 1..NumIssueCores :
        CanTakeBlock(cl.cores[CyclicOrder(cl.block_issue_next_core)[i]], cl.kernel, selected)}

\* the call issued nothing: no core gained a block, the pointer is as before
NoBlockIssued(cl, after) ==
    /\ after.last.num_blocks_issued = 0
    /\ after.last.tried = CyclicOrder(cl.block_issue_next_core)
    /\ after.block_issue_next_core = cl.block_issue_next_core
    /\ after.kernel = cl.kernel
    /\ \A i \in IssueCoreIds : after.cores[i].num_active_blocks = cl.cores[i].num_active_blocks

\* the call issued one block, to the core at position pos of the order
OneBlockIssued(cl, after, pos) ==
    /\ after.last.num_blocks_issued = 1
    /\ after.last.tried = SubSeq(CyclicOrder(cl.block_issue_next_core), 1, pos)
    /\ after.block_issue_next_core = CyclicOrder(cl.block_issue_next_core)[pos]
    /\ after.kernel.blocks_left = cl.kernel.blocks_left - 1
    /\ \A i \in IssueCoreIds :
          after.cores[i].num_active_blocks =
              cl.cores[i].num_active_blocks
                + (IF i = CyclicOrder(cl.block_issue_next_core)[pos] THEN 1 ELSE 0)

\* C31: a call of issue_block_to_core issues at most one block; it visits the
\* cores in cyclic order starting just after the core that received the
\* previous block and issues to the first one that can take a block, which
\* becomes the remembered core; when no core can take a block it issues none
\* and the pointer keeps its value
C31_BlockIssuedRoundRobin ==
    [][ret'.op = "issue_block_to_core" =>
          IF Takers(cluster, cluster'.last.selected) = {}
          THEN NoBlockIssued(cluster, cluster')
          ELSE OneBlockIssued(cluster, cluster',
                              MinIndex(Takers(cluster, cluster'.last.selected)))]_vars

\* C31 witness: a call skipped the core after the pointer, wrapped around and
\* issued its block to a lower-numbered core
C31_Witness ==
    /\ ret.op = "issue_block_to_core"
    /\ cluster.last.num_blocks_issued = 1
    /\ Len(cluster.last.tried) >= 2
    /\ cluster.last.tried[1] > cluster.last.tried[Len(cluster.last.tried)]
    /\ cluster.block_issue_next_core = cluster.last.tried[Len(cluster.last.tried)]

\* C32: once the last active block of the core has completed, the core has no
\* current kernel until a kernel is bound again
C32_IdleCoreHasNoKernel ==
    (ret.op = "core_cycle" /\ core.reclaimed # {} /\ core.num_active_blocks = 0)
        => ~core.current_kernel

\* ------------------------------------------------------------------------
\* Cores issuing warp instructions with uids from one shared counter
\* ------------------------------------------------------------------------
NumUidCores == 2
UidCoreIds == 0..(NumUidCores - 1)

\* a trace with two memory barriers, each after a register write
BarrierTrace ==
    <<TraceInstr("ALU_OP", 1), TraceInstr("MEMORY_BARRIER_OP", 0),
      TraceInstr("ALU_OP", 2), TraceInstr("MEMORY_BARRIER_OP", 0),
      TraceInstr("EXIT_OPS", 0)>>

\* kernels of one warp per block
BarrierKernels == [threads_per_block : {WarpSize}, trace : {BarrierTrace}, blocks_left : {1}]

\* the kernel of the other cores: its warp exits at once
ShortKernel ==
    [threads_per_block |-> 1, blocks_left |-> 1, trace |-> <<TraceInstr("EXIT_OPS", 0)>>]

\* the core with the first block of its kernel
CoreWithBlock(kernel) == issue_block(set_kernel(NewCore(IssueConfig, kernel), kernel), kernel)

\* every core sees the one counter (Arc<AtomicU64>)
ShareUid(cores, uid) == [i \in UidCoreIds |-> [cores[i] EXCEPT !.warp_instruction_unique_uid = uid]]

InitIssueWarp ==
    /\ cfg = [write_policy |-> "READ_ONLY", write_allocate_policy |-> "NO_WRITE_ALLOCATE",
              allocate_policy |-> "ON_MISS", miss_queue_size |-> 1]
    /\ c = EmptyCache
    /\ replies = {}
    /\ time = 0
    /\ next_uid = 1
    /\ panicked = FALSE
    /\ ret = NoRet
    /\ issued = <<>>
    /\ queued = <<>>
    /\ sent = <<>>
    /\ block = NewBlock("mask")
    /\ cluster = IdleCluster
    /\ \E kernel \in BarrierKernels, flush_l1_cache \in BOOLEAN :
          core = [cores |-> [i \in UidCoreIds |->
                               CoreWithBlock(IF i = 0 THEN kernel ELSE ShortKernel)],
                  warp_instruction_unique_uid |-> 0,
                  flush_l1_cache |-> flush_l1_cache,
                  uids |-> <<>>,
                  last |-> [core_id |-> 0, warp_id |-> 0, waiting |-> FALSE]]

NoCorePanicked == \A i \in UidCoreIds : ~core.cores[i].panic

\* the state after core_id ran issue_warp to completion; issued_core is its core
WarpIssuedOn(st, core_id, warp_id, issued_core) ==
    [st EXCEPT
       !.cores = ShareUid([@ EXCEPT ![core_id] = issued_core],
                          issued_core.warp_instruction_unique_uid),
       !.warp_instruction_unique_uid = issued_core.warp_instruction_unique_uid,
       !.uids = IF issued_core.issue_warp_result = "Ok" /\ ~issued_core.panic
                THEN Append(@, issued_core.pipeline_reg["ID_OC"].uid)
                ELSE @,
       !.last = [core_id |-> core_id, warp_id |-> warp_id, waiting |-> FALSE]]

\* a scheduler of core_id issues the next instruction of a warp
IssueWarpStep ==
    /\ NoCorePanicked
    /\ \E core_id \in UidCoreIds, warp_id \in WarpIds :
          /\ core.cores[core_id].warps[warp_id].ibuffer # <<>>
          /\ core' = WarpIssuedOn(core, core_id, warp_id,
                                  issue_warp(core.cores[core_id], "ID_OC", warp_id))
    /\ ret' = [NoRet EXCEPT !.op = "issue_warp"]
    /\ UNCHANGED <<cfg, c, replies, time, next_uid, panicked, issued, queued, sent, block, cluster>>

\* decode refills the empty i-buffer of a warp
DecodeWarpStep ==
    /\ NoCorePanicked
    /\ \E core_id \in UidCoreIds, warp_id \in WarpIds :
          /\ ~core.cores[core_id].warps[warp_id].done_exit
          /\ core.cores[core_id].warps[warp_id].ibuffer = <<>>
          /\ ~warp_done(core.cores[core_id].warps[warp_id])
          /\ core' = [core EXCEPT !.cores[core_id] = DecodeNext(@, warp_id)]
    /\ ret' = [NoRet EXCEPT !.op = "decode"]
    /\ UNCHANGED <<cfg, c, replies, time, next_uid, panicked, issued, queued, sent, block, cluster>>

\* writeback, execute and operand collector of one cycle of a core
BackEndStep ==
    /\ NoCorePanicked
    /\ \E core_id \in UidCoreIds :
          core' = [core EXCEPT !.cores[core_id] =
                      [OperandCollectorSteps(
                          core_execute(core_writeback([@ EXCEPT !.stages = <<>>])), 1)
                       EXCEPT !.stages = <<>>]]
    /\ ret' = [NoRet EXCEPT !.op = "back_end"]
    /\ UNCHANGED <<cfg, c, replies, time, next_uid, panicked, issued, queued, sent, block, cluster>>

\* the state after warp_waiting_at_mem_barrier returned checked
MemBarrierChecked(st, core_id, warp_id, checked) ==
    [st EXCEPT !.cores[core_id] = checked.core,
               !.last = [core_id |-> core_id, warp_id |-> warp_id,
                         waiting |-> checked.waiting]]

\* a scheduler asks whether a warp waits at a memory barrier
MemBarrierCheckStep ==
    /\ NoCorePanicked
    /\ \E core_id \in UidCoreIds, warp_id \in WarpIds :
          /\ ~core.cores[core_id].warps[warp_id].done_exit
          /\ core' = MemBarrierChecked(core, core_id, warp_id,
                        warp_waiting_at_mem_barrier(core.cores[core_id], warp_id,
                                                    core.flush_l1_cache))
    /\ ret' = [NoRet EXCEPT !.op = "warp_waiting_at_mem_barrier"]
    /\ UNCHANGED <<cfg, c, replies, time, next_uid, panicked, issued, queued, sent, block, cluster>>

NextIssueWarp == IssueWarpStep \/ DecodeWarpStep \/ BackEndStep \/ MemBarrierCheckStep

SpecIssueWarp == InitIssueWarp /\ [][NextIssueWarp]_vars

\* the warp the last call was about, before and after the call
LastWarp(st, after) == st.cores[after.last.core_id].warps[after.last.warp_id]

\* the warp's next instruction entered the register of the stage
IssuedOk(st, after) ==
    /\ after.cores[after.last.core_id].issue_warp_result = "Ok"
    /\ st.cores[after.last.core_id].pipeline_reg["ID_OC"] = NoInstr

\* C33: a warp that issues a MEMORY_BARRIER_OP has waiting_for_memory_barrier
\* set, and nothing else sets it; a check reports the warp waiting exactly
\* when the flag is set and its scoreboard has pending writes; a check of a
\* flagged warp without pending writes clears the flag, so later checks report
\* not waiting until the warp issues another memory barrier
C33_MemoryBarrierWaitsForPendingWrites ==
    [][/\ (ret'.op = "issue_warp" /\ IssuedOk(core, core')
             /\ Head(LastWarp(core, core').ibuffer).op = "MEMORY_BARRIER_OP")
          => LastWarp(core', core').waiting_for_memory_barrier
       /\ \A i \in UidCoreIds, w \in WarpIds :
             (/\ core'.cores[i].warps[w].waiting_for_memory_barrier
              /\ ~core.cores[i].warps[w].waiting_for_memory_barrier)
             => /\ ret'.op = "issue_warp"
                /\ core'.last.core_id = i /\ core'.last.warp_id = w
                /\ core'.cores[i].pipeline_reg["ID_OC"].op = "MEMORY_BARRIER_OP"
       /\ ret'.op = "warp_waiting_at_mem_barrier"
          => /\ core'.last.waiting =
                  (/\ LastWarp(core, core').waiting_for_memory_barrier
                   /\ has_pending_writes(core.cores[core'.last.core_id], core'.last.warp_id))
             /\ LastWarp(core', core').waiting_for_memory_barrier = core'.last.waiting
      ]_vars

\* C33 witness: a check found the flagged warp without pending writes, cleared
\* the flag and reported it not waiting, after the warp issued its first
\* memory barrier and before it issued the second
C33_Witness ==
    /\ ret.op = "warp_waiting_at_mem_barrier"
    /\ ~core.last.waiting
    /\ ~core.cores[core.last.core_id].panic
    /\ ~core.cores[core.last.core_id].warps[core.last.warp_id].waiting_for_memory_barrier
    /\ core.cores[core.last.core_id].warps[core.last.warp_id].issued = <<1, 2>>
    /\ core.cores[core.last.core_id].pipeline_reg["ID_OC"].op = "MEMORY_BARRIER_OP"

\* C34: the uids given to the issued warp instructions of all cores are
\* pairwise different
C34_IssuedUidsUnique ==
    \A i, j \in 1..Len(core.uids) : i # j => core.uids[i] # core.uids[j]

\* C34 witness: both cores hold an instruction they issued in their ID_OC
\* register, with different uids, and neither has drained it
C34_Witness ==
    /\ ret.op = "issue_warp"
    /\ Len(core.uids) >= 3
    /\ \A i \in UidCoreIds : core.cores[i].pipeline_reg["ID_OC"] # NoInstr
    /\ core.cores[0].pipeline_reg["ID_OC"].uid # core.cores[1].pipeline_reg["ID_OC"].uid
    /\ core.cores[1].pipeline_reg["ID_OC"].uid < core.cores[0].pipeline_reg["ID_OC"].uid

\* C38: issue_warp on a stage whose register is occupied returns an error and
\* leaves the core and the uid counter as they were: i-buffer, scoreboard,
\* barriers, memory-barrier flag and pipeline register included
C38_NoFreeRegisterChangesNothing ==
    [][(/\ ret'.op = "issue_warp"
        /\ core.cores[core'.last.core_id].pipeline_reg["ID_OC"] # NoInstr)
       => /\ core'.cores[core'.last.core_id].issue_warp_result = "Err"
          /\ core'.warp_instruction_unique_uid = core.warp_instruction_unique_uid
          /\ core'.uids = core.uids
          /\ core'.cores =
                [core.cores EXCEPT ![core'.last.core_id].issue_warp_result = "Err"]
      ]_vars

\* C38 witness: a warp with a buffered memory barrier was refused because the
\* ID_OC register still held the instruction issued before
C38_Witness ==
    /\ ret.op = "issue_warp"
    /\ core.cores[core.last.core_id].issue_warp_result = "Err"
    /\ core.cores[core.last.core_id].pipeline_reg["ID_OC"].op = "ALU_OP"
    /\ core.cores[core.last.core_id].warps[core.last.warp_id].ibuffer # <<>>
    /\ Head(core.cores[core.last.core_id].warps[core.last.warp_id].ibuffer).op
          = "MEMORY_BARRIER_OP"
    /\ ~core.cores[core.last.core_id].warps[core.last.warp_id].waiting_for_memory_barrier

\* the lines of the cache that hold the block of addr
LinesOf(cc, addr) ==
    {i \in DOMAIN cc.ta.lines : /\ cc.ta.lines[i].status # "INVALID"
                                /\ cc.ta.lines[i].block_addr = block_addr(addr)}

\* C35: an access that hits leaves the current cycle as last_access_time on
\* the line it touched, in the read-only cache as in the data cache
C35_AccessTimeIsCurrentCycle ==
    (ret.op = "access" /\ ret.status = "HIT" /\ ~panicked)
        => \A i \in LinesOf(c, ret.addr) : c.ta.lines[i].last_access_time = time

\* C37: a store that the data cache answers with RESERVATION_FAIL leaves the
\* miss queue, the MSHR table and the tag array as they were
C37_FailedStoreLeavesQueues ==
    IsDataCache =>
      \A f \in Stores :
        (AccessOf(f).status = "RESERVATION_FAIL" /\ ~AccessOf(f).panic)
          => /\ AccessOf(f).c.miss_queue = c.miss_queue
             /\ AccessOf(f).c.mshrs = c.mshrs
             /\ AccessOf(f).c.ta = c.ta
             /\ AccessOf(f).c = [c EXCEPT !.stats = AccessOf(f).c.stats]
             /\ \A k \in BagToSet(AccessOf(f).c.stats) :
                   CopiesIn(k, AccessOf(f).c.stats) # CopiesIn(k, c.stats)
                     => k[2] \in FailureReasons \cup {"RESERVATION_FAIL"}

\* C37 witness: a write-allocate store was refused while fetches were waiting
\* in the miss queue, and it is not among the fetches ever enqueued
C37_Witness ==
    /\ ret.op = "access" /\ ret.kind = "GLOBAL_ACC_W"
    /\ ret.status = "RESERVATION_FAIL"
    /\ cfg.write_allocate_policy = "WRITE_ALLOCATE"
    /\ c.miss_queue # <<>>
    /\ \A i \in 1..Len(queued) : queued[i] # ret.uid

\* C39: the bank, row and column of every writeback fetch, on the read-miss
\* path and on the write-allocate path, are the memory controller's
\* translation of the address of the evicted block, which is the address the
\* writeback carries
C39_WritebackRowOfEvictedBlock ==
    IsDataCache =>
      \A f \in AllDataFetches(next_uid) :
        \A i \in 1..Len(PushedFetches(c, AccessOf(f).c)) :
          IsWriteback(PushedFetches(c, AccessOf(f).c)[i]) =>
            PushedFetches(c, AccessOf(f).c)[i].physical_addr.brc
              = to_physical_address(PushedFetches(c, AccessOf(f).c)[i].addr).brc

\* ------------------------------------------------------------------------
\* Trace generation: Tracer::trace_kernel for one block of one warp
\* ------------------------------------------------------------------------
WARP_SIZE == 2
MaxThreadInstructions == 2
MaxTraceAddr == 1

TraceLanes == 1..WARP_SIZE

\* model::ThreadInstruction as Tracer::load and Tracer::store record it
Inactive == [variant |-> "Inactive", kind |-> "None", addr |-> 0]
ThreadAccess(kind, addr) == [variant |-> "Access", kind |-> kind, addr |-> addr]
ThreadInstructions ==
    {Inactive} \cup {ThreadAccess(k, a) : k \in {"Load", "Store"}, a \in 0..MaxTraceAddr}

\* what one run of the kernel on a thread can record
ThreadRecordings == UNION {[1..n -> ThreadInstructions] : n \in 0..MaxThreadInstructions}

\* itertools all_equal over the per-lane vectors: Vec equality, element by element
all_equal(thread_instructions) ==
    \A i, j \in TraceLanes : thread_instructions[i] = thread_instructions[j]

NoEntry == [instr_opcode |-> "", instr_idx |-> 0, active_mask |-> {}, addrs |-> <<>>]

\* the entry of one instruction of the warp, NoEntry when the first lane did
\* not record an access; instr_idx counts from 0
WarpEntry(thread_instructions, instr_idx) ==
    IF thread_instructions[1][instr_idx + 1].variant = "Access"
    THEN [instr_opcode |-> IF thread_instructions[1][instr_idx + 1].kind = "Load"
                           THEN "LDG" ELSE "STG",
          instr_idx |-> instr_idx,
          active_mask |-> {l \in TraceLanes :
                              thread_instructions[l][instr_idx + 1].variant = "Access"},
          addrs |-> [l \in TraceLanes |->
                       IF thread_instructions[l][instr_idx + 1].variant = "Access"
                       THEN thread_instructions[l][instr_idx + 1].addr ELSE 0]]
    ELSE NoEntry

ExitEntry(num_instructions) ==
    [instr_opcode |-> "EXIT", instr_idx |-> num_instructions, active_mask |-> TraceLanes,
     addrs |-> [l \in TraceLanes |-> 0]]

IsEntry(e) == e # NoEntry

\* the entries pushed for the warp
WarpEntries(thread_instructions, num_instructions) ==
    Append(SelectSeq([i \in 1..num_instructions |-> WarpEntry(thread_instructions, i - 1)],
                     IsEntry),
           ExitEntry(num_instructions))

\* trace_kernel for the warp whose lanes recorded thread_instructions; the
\* lanes beyond the block size keep their empty vector
trace_kernel(thread_instructions) ==
    IF ~all_equal(thread_instructions)
    THEN [result |-> "InconsistentNumberOfWarpInstructions", trace |-> <<>>]
    ELSE [result |-> "Ok",
          trace |-> WarpEntries(thread_instructions, Len(thread_instructions[1]))]

InitTraceGen ==
    /\ cfg = [write_policy |-> "READ_ONLY", write_allocate_policy |-> "NO_WRITE_ALLOCATE",
              allocate_policy |-> "ON_MISS", miss_queue_size |-> 1]
    /\ c = EmptyCache
    /\ replies = {}
    /\ time = 0
    /\ next_uid = 1
    /\ panicked = FALSE
    /\ ret = NoRet
    /\ issued = <<>>
    /\ queued = <<>>
    /\ sent = <<>>
    /\ block = NewBlock("mask")
    /\ cluster = IdleCluster
    /\ \E block_size \in TraceLanes, recorded \in [TraceLanes -> ThreadRecordings] :
          /\ \A l \in TraceLanes : l > block_size => recorded[l] = <<>>
          /\ core = [block_size |-> block_size, thread_instructions |-> recorded,
                     result |-> "NotRun", trace |-> <<>>]

TraceKernel ==
    /\ core.result = "NotRun"
    /\ core' = [core EXCEPT !.result = trace_kernel(core.thread_instructions).result,
                            !.trace = trace_kernel(core.thread_instructions).trace]
    /\ ret' = [NoRet EXCEPT !.op = "trace_kernel"]
    /\ UNCHANGED <<cfg, c, replies, time, next_uid, panicked, issued, queued, sent, block, cluster>>

NextTraceGen == TraceKernel

SpecTraceGen == InitTraceGen /\ [][NextTraceGen]_vars

\* the threads of the warp recorded different numbers of instructions
InconsistentCounts(st) ==
    \E s, t \in 1..st.block_size :
        Len(st.thread_instructions[s]) # Len(st.thread_instructions[t])

\* C36: trace_kernel fails exactly when two threads of the warp recorded
\* different numbers of instructions; otherwise, whatever the addresses and
\* the inactive lanes, the trace has one entry per instruction and then one
\* EXIT entry with the full active mask
C36_FailsOnlyOnDifferentCounts ==
    core.result # "NotRun" =>
        /\ (core.result = "InconsistentNumberOfWarpInstructions") <=> InconsistentCounts(core)
        /\ core.result = "Ok" =>
              /\ Len(core.trace) = Len(core.thread_instructions[1]) + 1
              /\ core.trace[Len(core.trace)].instr_opcode = "EXIT"
              /\ core.trace[Len(core.trace)].active_mask = TraceLanes

\* ------------------------------------------------------------------------
\* find_available_hw_thread_id, one loop iteration per step
\* ------------------------------------------------------------------------
MAX_THREAD_PER_SM == 4
MaxThreadBlockSize == 3

HwThreadIds == 0..(MAX_THREAD_PER_SM - 1)

\* occupied_hw_thread_ids[from..to]: the slice panics when it ends after the
\* last bit
SliceInRange(from, to) == from <= to /\ to <= MAX_THREAD_PER_SM
not_any(occupied, from, to) == \A i \in from..(to - 1) : i \notin occupied

\* the call: which of the two versions runs, its arguments, and its position
NewFind(version, occupied, max_threads_per_core, thread_block_size, occupy) ==
    [version |-> version, occupied_hw_thread_ids |-> occupied,
     max_threads_per_core |-> max_threads_per_core,
     thread_block_size |-> thread_block_size, occupy |-> occupy,
     pc |-> "outer", step |-> 0, hw_thread_id |-> 0, result |-> NoIndex]

InitFind ==
    /\ cfg = [write_policy |-> "READ_ONLY", write_allocate_policy |-> "NO_WRITE_ALLOCATE",
              allocate_policy |-> "ON_MISS", miss_queue_size |-> 1]
    /\ c = EmptyCache
    /\ replies = {}
    /\ time = 0
    /\ next_uid = 1
    /\ panicked = FALSE
    /\ ret = NoRet
    /\ issued = <<>>
    /\ queued = <<>>
    /\ sent = <<>>
    /\ block = NewBlock("mask")
    /\ cluster = IdleCluster
    /\ \E version \in {"core", "ported"}, occupied \in SUBSET HwThreadIds,
          max_threads_per_core \in 1..MAX_THREAD_PER_SM,
          thread_block_size \in 1..MaxThreadBlockSize, occupy \in BOOLEAN :
          core = NewFind(version, occupied, max_threads_per_core, thread_block_size, occupy)

\* core.rs:1780-1795: one test of `while step < max_threads_per_core`
FindOuterCore(f) ==
    IF f.step >= f.max_threads_per_core
    THEN [f EXCEPT !.pc = "finish"]
    ELSE IF ~SliceInRange(f.step, f.step + f.thread_block_size)
    THEN [f EXCEPT !.pc = "panicked"]
    ELSE IF not_any(f.occupied_hw_thread_ids, f.step, f.step + f.thread_block_size)
    THEN [f EXCEPT !.pc = "finish"]
    ELSE [f EXCEPT !.step = @ + f.thread_block_size]

\* ported/core.rs:133-134: one test of `while step < max_threads_per_shader`
FindOuterPorted(f) ==
    IF f.step >= f.max_threads_per_core
    THEN [f EXCEPT !.pc = "finish"]
    ELSE [f EXCEPT !.hw_thread_id = f.step, !.pc = "inner"]

\* ported/core.rs:135-139: one test of `while hw_thread_id < step +
\* thread_block_size`; the body breaks on an occupied id and otherwise ends
\* without advancing hw_thread_id
FindInnerPorted(f) ==
    IF f.hw_thread_id >= f.step + f.thread_block_size
    THEN [f EXCEPT !.pc = "after_inner"]
    ELSE IF f.hw_thread_id \notin HwThreadIds
    THEN [f EXCEPT !.pc = "panicked"]
    ELSE IF f.hw_thread_id \in f.occupied_hw_thread_ids
    THEN [f EXCEPT !.pc = "after_inner"]
    ELSE f

\* ported/core.rs:140-144
FindAfterInnerPorted(f) ==
    IF f.hw_thread_id = f.step + f.thread_block_size
    THEN [f EXCEPT !.pc = "finish"]
    ELSE [f EXCEPT !.step = @ + f.thread_block_size, !.pc = "outer"]

\* core.rs:1796-1807 and ported/core.rs:146-156
FindFinish(f) ==
    IF f.step >= f.max_threads_per_core
    THEN [f EXCEPT !.pc = "returned", !.result = NoIndex]
    ELSE IF f.occupy /\ ~SliceInRange(f.step, f.step + f.thread_block_size)
    THEN [f EXCEPT !.pc = "panicked"]
    ELSE [f EXCEPT !.pc = "returned", !.result = f.step,
                   !.occupied_hw_thread_ids =
                       IF f.occupy
                       THEN @ \cup (f.step..(f.step + f.thread_block_size - 1))
                       ELSE @]

FindOuter ==
    /\ core.pc = "outer"
    /\ core' = IF core.version = "core" THEN FindOuterCore(core) ELSE FindOuterPorted(core)
    /\ ret' = [NoRet EXCEPT !.op = "find_outer"]
    /\ UNCHANGED <<cfg, c, replies, time, next_uid, panicked, issued, queued, sent, block, cluster>>

FindInner ==
    /\ core.pc = "inner"
    /\ core' = FindInnerPorted(core)
    /\ ret' = [NoRet EXCEPT !.op = "find_inner"]
    /\ UNCHANGED <<cfg, c, replies, time, next_uid, panicked, issued, queued, sent, block, cluster>>

FindAfterInner ==
    /\ core.pc = "after_inner"
    /\ core' = FindAfterInnerPorted(core)
    /\ ret' = [NoRet EXCEPT !.op = "find_after_inner"]
    /\ UNCHANGED <<cfg, c, replies, time, next_uid, panicked, issued, queued, sent, block, cluster>>

FindReturn ==
    /\ core.pc = "finish"
    /\ core' = FindFinish(core)
    /\ ret' = [NoRet EXCEPT !.op = "find_return"]
    /\ UNCHANGED <<cfg, c, replies, time, next_uid, panicked, issued, queued, sent, block, cluster>>

NextFind == FindOuter \/ FindInner \/ FindAfterInner \/ FindReturn

\* the thread that runs the call keeps running it
SpecFind == InitFind /\ [][NextFind]_vars /\ WF_vars(NextFind)

\* C40: every call of find_available_hw_thread_id returns
C40_FindReturns == <>(core.pc = "returned")

====
